---- MODULE Spec2Model ----
(***************************************************************************)
(* Verification model of kinguin_tl.                                       *)
(*                                                                         *)
(* Part I  (SpecBatch): the batch scheduler of src/main.py with its worker *)
(*          threads and the note cache of app/service/data_cache.py.       *)
(* Part II (SpecSheet): the CacheSheet of app/gsheet_cache/sheet.py: the   *)
(*          key pool, the retrying executor, the local grid, its CSV file  *)
(*          and the remote table.                                          *)
(* Part III (SpecRegistry): the GSheetCacheManager of                      *)
(*          app/gsheet_cache/manager.py.                                   *)
(* Part IV (SpecThreads): threads sharing one CacheSheet.                  *)
(* Part V  (SpecPricing, SpecCommission): the pricing engine of            *)
(*          app/processes/process.py and the commission algebra.           *)
(* Part VI (SpecValidation): validate_required_fields of src/main.py on    *)
(*          the rows of the cache.                                         *)
(* Part VII (SpecSplit): split_list of app/shared/utils.py and the batches *)
(*          of main().                                                     *)
(* Part VIII (SpecFlow): the worker's handling of one row after another,   *)
(*          from process() to the note written to the cache.               *)
(***************************************************************************)
EXTENDS Naturals, Integers, Sequences, FiniteSets, TLC

(***************************************************************************)
(* Bounds of the model.                                                    *)
(***************************************************************************)
\* sheet rows that may carry the run flag
MaxRows == 2
\* config.THREAD_NUMBER: workers per batch and batch size
THREAD_NUMBER == 2
\* number of main() rounds explored (the script loops forever)
MaxRounds == 2

Rows == 1..MaxRows
Workers == 1..THREAD_NUMBER

\* the stop sentinel None put on the queue
Sentinel == 0

VARIABLES
    \* ---- Part I: scheduler, workers, DataCache ----
    mainPc,            \* position of the main thread
    round,             \* number of main() calls started
    run_indexes,       \* list returned by get_run_indexes
    batchIdx,          \* 1-based number of the batch being run (0: none)
    data,              \* keys of DataCache.data of the current _cache
    pending_updates,   \* DataCache.pending_updates: row -> note version, 0 = absent
    updates_to_flush,  \* snapshot taken by flush_updates_to_sheet
    index_queue,       \* the batch's Queue
    unfinished_tasks,  \* Queue.unfinished_tasks
    wpc,               \* position of each worker thread of the current batch
    wcur,              \* index held by each worker
    startedBatches,    \* batches whose worker threads have been started
    joinIdx,           \* thread the main thread is joining
    abandoned,         \* workers whose join timed out
    zombies,           \* abandoned workers of earlier batches still mid-row
    lastRec,           \* row -> version of the last note recorded by update_fields
    remote,            \* row -> note version held by the remote sheet
    noted,             \* rows for which update_fields recorded a note in this batch
    flushOutcome,      \* outcome of the last flush_updates_to_sheet
    flushCount,        \* calls of flush_updates_to_sheet that have returned
    \* ---- Part II: CacheSheet ----
    inst,              \* life of the instance: none, loading, ready, failed
    keys,              \* len(self.keys)
    max_retries,       \* self.max_retries
    failed_keys,       \* self._failed_keys
    current_key_index, \* self._current_key_index
    http_client,       \* key index self._http_client was built with
    loaded,            \* self._cache_data is not None
    cache_data,        \* self._cache_data
    dirty,             \* self._dirty
    cache_file,        \* lines of the CSV cache file
    remoteTable,       \* cells of the remote sheet
    op,                \* operation inside __execute_with_retry: none, load, update
    attempt,           \* loop variable of __execute_with_retry
    body,              \* data_body of the pending values_batch_update
    nUpdates,          \* update_value calls made so far
    nFlushes,          \* flush_to_sheet calls made so far
    lastUpd,           \* last update_value call not followed by a flush
    rt,                \* progress of an update / flush / fresh-instance round trip
    invocations,       \* times the current executed operation was invoked
    rlFailures,        \* rate-limit failures of the current executed operation
    rotations,         \* __rotate_key calls of the current executed operation
    events,            \* what the current executed operation did, in order
    startFailed,       \* _failed_keys when the operation entered the executor
    marked,            \* _failed_keys right after the last __rotate_key marked a key
    execResult         \* how the last executed operation ended: none, ok, raised

VARIABLES
    \* Part III: GSheetCacheManager and the threads that call it
    keys_dir,          \* the keys directory: Missing, or its number of .json files
    mgr,               \* the manager: none, ready, failed (its __init__ raised)
    sheets,            \* self.sheets: table key -> instance id, NoInstance if absent
    made,              \* table key -> ids of the instances add_sheet constructed
    rets,              \* table key -> ids add_sheet has returned for the key
    loads,             \* remote reads issued by constructors so far
    tpc,               \* thread -> position inside its manager call
    tkey,              \* thread -> table key of its call
    tnew,              \* thread -> id of the instance its constructor returned
    tres               \* thread -> how its last call ended

VARIABLES
    \* threads inside the methods of one shared CacheSheet
    gpc,               \* thread -> position inside its CacheSheet call
    gcell,             \* thread -> the address of its call
    gval               \* thread -> the value its update_value writes

thrVars == <<gpc, gcell, gval>>

VARIABLES
    \* Part V: one run of the pricing engine on a row
    product,           \* the row's pricing configuration
    my_offer,          \* my_offer.price.amount
    min_unit_price_offer, \* the best valid offer, NoOffer while none
    nOffers,           \* offers the filter loop has gone through
    offers,            \* offers.items() as far as the loop has iterated
    ppc,               \* position: filter, done
    target_unit_price, \* the target unit price, NoTarget if none was chosen
    branch,            \* the branch taken: none, byMax, byMin, hold, byOffer
    customer_pay,      \* target_price_customer_pay
    priceiwtr,         \* target_priceiwtr
    price_back,        \* priceiwtr_to_price of priceiwtr
    updated            \* update_offer has been called

VARIABLES
    \* Part VI: validate_required_fields on one row of the cache
    cached_row,        \* the attributes of the row object and their values
    is_valid           \* the result: none, valid, invalid

valVars == <<cached_row, is_valid>>

VARIABLES
    \* split_list and the batches of main()
    lst,               \* the list to split
    chunk_size,        \* the size of a chunk (thread_number in main)
    batches            \* the result, <<>> while the list is not split

splitVars == <<lst, chunk_size, batches>>

VARIABLES
    \* process() on the rows one worker takes, one after the other
    fl_index,          \* the row the worker is handling
    fl_pc,             \* the worker's position in the handling of the row
    fl_mode,           \* CHECK_PRODUCT_COMPARE of the row
    fl_note,           \* per row, the notes written to the cache, in order
    fl_update,         \* per row, update_offer: none, returned, raised
    fl_raised          \* per row, the call that raised, "none" if none did

flowVars == <<fl_index, fl_pc, fl_mode, fl_note, fl_update, fl_raised>>

priceVars ==
    <<product, my_offer, min_unit_price_offer, nOffers, offers, ppc,
      target_unit_price, branch, customer_pay, priceiwtr, price_back,
      updated>>

regVars == <<keys_dir, mgr, sheets, made, rets, loads, tpc, tkey, tnew, tres>>

batchVars == <<mainPc, round, run_indexes, batchIdx, data, pending_updates,
               updates_to_flush, index_queue, unfinished_tasks, wpc, wcur,
               startedBatches, joinIdx, abandoned, zombies, lastRec, remote, noted,
               flushOutcome, flushCount>>

sheetVars == <<inst, keys, max_retries, failed_keys, current_key_index,
               http_client, loaded, cache_data, dirty, cache_file, remoteTable,
               op, attempt, body, nUpdates, nFlushes, lastUpd, rt, invocations,
               rlFailures, rotations, events, startFailed, marked, execResult>>

vars == <<batchVars, sheetVars, regVars, thrVars, priceVars, valVars,
          splitVars, flowVars>>

\* what the actions of each part leave alone
exceptBatch == <<splitVars, flowVars, sheetVars, regVars, thrVars, priceVars,
                 valVars>>
exceptSheet == <<splitVars, flowVars, batchVars, regVars, thrVars, priceVars,
                 valVars>>
exceptRegistry == <<splitVars, flowVars, batchVars, sheetVars, thrVars,
                    priceVars, valVars>>
exceptThreads == <<splitVars, flowVars, batchVars, regVars, priceVars, valVars>>
exceptPricing == <<splitVars, flowVars, batchVars, sheetVars, regVars, thrVars,
                   valVars>>
exceptValidation == <<batchVars, sheetVars, regVars, thrVars, priceVars,
                      splitVars, flowVars>>
exceptSplit == <<batchVars, sheetVars, regVars, thrVars, priceVars, valVars,
                 flowVars>>
exceptFlow == <<batchVars, sheetVars, regVars, thrVars, priceVars, valVars,
                splitVars>>

NoRows == [i \in Rows |-> 0]

(***************************************************************************)
(* Helpers                                                                 *)
(***************************************************************************)
RECURSIVE SortedSeq(_)
\* enumerate(check_col) visits the rows in increasing order
SortedSeq(S) ==
    IF S = {} THEN <<>>
    ELSE LET m == CHOOSE x \in S : \A y \in S : x <= y
         IN <<m>> \o SortedSeq(S \ {m})

Min(a, b) == IF a < b THEN a ELSE b

\* batches = [run_indexes[i : i + thread_number] for i in range(0, len, thread_number)]
NumBatches(idx) == (Len(idx) + THREAD_NUMBER - 1) \div THREAD_NUMBER
Batch(idx, k) ==
    SubSeq(idx, (k - 1) * THREAD_NUMBER + 1, Min(k * THREAD_NUMBER, Len(idx)))

\* Queue.task_done: raises ValueError when the counter would go below zero
TaskDoneRaises(u) == u - 1 < 0
\* task_done that leaves the counter alone
TaskDoneCountStuck(u) == u

TaskDoneCount(u) == IF u - 1 < 0 THEN u ELSE u - 1

BatchInit ==
    /\ mainPc = "start"
    /\ round = 0
    /\ run_indexes = <<>>
    /\ batchIdx = 0
    /\ data = {}
    /\ pending_updates = NoRows
    /\ updates_to_flush = NoRows
    /\ index_queue = <<>>
    /\ unfinished_tasks = 0
    /\ wpc = [w \in Workers |-> "none"]
    /\ wcur = [w \in Workers |-> 0]
    /\ startedBatches = 0
    /\ joinIdx = 0
    /\ abandoned = {}
    /\ zombies = {}
    /\ lastRec = NoRows
    /\ remote = NoRows
    /\ noted = {}
    /\ flushOutcome = "none"
    /\ flushCount = 0

(***************************************************************************)
(* DataCache (app/service/data_cache.py)                                   *)
(***************************************************************************)
\* DataCache.update_fields: under the lock, a row that is in self.data gets
\* the note and the mutation is queued; any other index is ignored.
\* n: number of successive calls made for the row by the same handler step.
UpdateFields(i, n) ==
    IF i \in data
    THEN /\ lastRec' = [lastRec EXCEPT ![i] = lastRec[i] + n]
         /\ pending_updates' = [pending_updates EXCEPT ![i] = lastRec[i] + n]
         /\ noted' = noted \cup {i}
    ELSE UNCHANGED <<lastRec, pending_updates, noted>>

NoUpdate == UNCHANGED <<lastRec, pending_updates, noted>>

\* the except branch of flush_updates_to_sheet drops the snapshot
RestoreFailedDropped(pend, snap) == pend

\* the except branch of flush_updates_to_sheet: the snapshot is merged back,
\* an index that was re-recorded meanwhile keeps the newer entry
RestoreFailed(pend, snap) ==
    [i \in Rows |-> IF pend[i] = 0 THEN snap[i] ELSE pend[i]]

\* worksheet.batch_update with the snapshot's cells
BatchUpdate(rem, snap) ==
    [i \in Rows |-> IF snap[i] # 0 THEN snap[i] ELSE rem[i]]

(***************************************************************************)
(* main() (src/main.py)                                                    *)
(***************************************************************************)
\* get_run_indexes, and the early return when no row is flagged
MainStart ==
    /\ mainPc = "start"
    /\ round < MaxRounds
    /\ round' = round + 1
    /\ \E S \in SUBSET Rows :
          /\ run_indexes' = SortedSeq(S)
          /\ mainPc' = IF S = {} THEN "start" ELSE "init"
    /\ UNCHANGED <<batchIdx, data, pending_updates, updates_to_flush,
                   index_queue, unfinished_tasks, wpc, wcur, startedBatches, joinIdx,
                   abandoned, zombies, lastRec, remote, noted, flushOutcome,
                   flushCount>>
    /\ UNCHANGED exceptBatch

\* initialize_cache: a new DataCache replaces the global one; load_from_sheet
\* skips rows that are out of range or fail to parse
InitializeCache ==
    /\ mainPc = "init"
    /\ \E S \in SUBSET {run_indexes[k] : k \in 1..Len(run_indexes)} : data' = S
    /\ pending_updates' = NoRows
    /\ batchIdx' = 1
    /\ mainPc' = "seed"
    /\ UNCHANGED <<round, run_indexes, updates_to_flush, index_queue,
                   unfinished_tasks, wpc, wcur, startedBatches, joinIdx, abandoned,
                   zombies, lastRec, remote, noted, flushOutcome, flushCount>>
    /\ UNCHANGED exceptBatch

\* worker states in which the thread is inside a row (scraping, API calls,
\* time.sleep): the only ones a 120 s join can time out on
Busy(pc) == pc \in {"process", "sleep"}

\* Thread.is_alive()
Alive(pc) == pc \in {"idle", "got", "process", "sleep", "finally"}

\* sb = browser_manager.get(worker_id - 1): the browser a worker drives
BrowserOf(worker_id) == worker_id - 1

\* what is left of an abandoned thread once its batch is over
Leftover(w) == [wid |-> w, idx |-> wcur[w], pc |-> wpc[w]]

\* a new Queue seeded with the batch and THREAD_NUMBER new threads
SeedBatch ==
    /\ mainPc = "seed"
    /\ index_queue' = Batch(run_indexes, batchIdx)
    /\ unfinished_tasks' = Len(Batch(run_indexes, batchIdx))
    /\ wpc' = [w \in Workers |-> "idle"]
    /\ startedBatches' = startedBatches + 1
    /\ mainPc' = "qjoin"
    /\ UNCHANGED <<round, run_indexes, batchIdx, data, pending_updates,
                   updates_to_flush, wcur, joinIdx, abandoned, zombies,
                   lastRec, remote, noted, flushOutcome, flushCount>>
    /\ UNCHANGED exceptBatch

\* index_queue.join() returns when unfinished_tasks is zero
QueueJoin ==
    /\ mainPc = "qjoin"
    /\ unfinished_tasks = 0
    /\ mainPc' = "sentinels"
    /\ UNCHANGED <<round, run_indexes, batchIdx, data, pending_updates,
                   updates_to_flush, index_queue, unfinished_tasks, wpc, wcur,
                   startedBatches, joinIdx, abandoned, zombies, lastRec, remote, noted,
                   flushOutcome, flushCount>>
    /\ UNCHANGED exceptBatch

\* for _ in range(thread_number): index_queue.put(None)
PutSentinels ==
    /\ mainPc = "sentinels"
    /\ index_queue' = index_queue \o [k \in 1..THREAD_NUMBER |-> Sentinel]
    /\ unfinished_tasks' = unfinished_tasks + THREAD_NUMBER
    /\ joinIdx' = 1
    /\ mainPc' = "join"
    /\ UNCHANGED <<round, run_indexes, batchIdx, data, pending_updates,
                   updates_to_flush, wpc, wcur, startedBatches, abandoned, zombies,
                   lastRec, remote, noted, flushOutcome, flushCount>>
    /\ UNCHANGED exceptBatch

\* t.join(timeout=120) returns at once, whatever the thread does
JoinReturnsNoWait(pc) == TRUE

\* t.join(timeout=120) returns because the thread has terminated
JoinReturns(pc) == ~Alive(pc)

\* t.join(timeout=120) gives up on a thread that is still inside a row
JoinTimesOut(pc) == Busy(pc)

\* for t in threads: t.join(timeout=120); the loop ends with the flush call
JoinThread ==
    /\ mainPc = "join"
    /\ joinIdx \in Workers
    /\ \/ /\ JoinReturns(wpc[joinIdx])
          /\ UNCHANGED abandoned
       \/ /\ JoinTimesOut(wpc[joinIdx])
          /\ abandoned' = abandoned \cup {joinIdx}
    /\ joinIdx' = joinIdx + 1
    /\ mainPc' = IF joinIdx = THREAD_NUMBER THEN "flush" ELSE "join"
    /\ UNCHANGED <<round, run_indexes, batchIdx, data, pending_updates,
                   updates_to_flush, index_queue, unfinished_tasks, wpc, wcur,
                   startedBatches, zombies, lastRec, remote, noted, flushOutcome,
                   flushCount>>
    /\ UNCHANGED exceptBatch

\* flush_updates_to_sheet, first critical section: return when nothing is
\* pending, else snapshot and clear
FlushBegin ==
    /\ mainPc = "flush"
    /\ IF pending_updates = NoRows
       THEN /\ flushOutcome' = "empty"
            /\ mainPc' = "flushed"
            /\ UNCHANGED <<updates_to_flush, pending_updates>>
       ELSE /\ updates_to_flush' = pending_updates
            /\ pending_updates' = NoRows
            /\ flushOutcome' = "inflight"
            /\ mainPc' = "flushWrite"
    /\ UNCHANGED <<round, run_indexes, batchIdx, data, index_queue,
                   unfinished_tasks, wpc, wcur, startedBatches, joinIdx, abandoned,
                   zombies, lastRec, remote, noted, flushCount>>
    /\ UNCHANGED exceptBatch

\* the try block: get_worksheet, batch_update, save_to_csv (which catches its
\* own errors); any exception leads to the except branch
FlushWrite ==
    /\ mainPc = "flushWrite"
    /\ \/ /\ remote' = BatchUpdate(remote, updates_to_flush)
          /\ flushOutcome' = "ok"
          /\ mainPc' = "flushed"
       \/ /\ mainPc' = "flushRestore"
          /\ UNCHANGED <<remote, flushOutcome>>
    /\ UNCHANGED <<round, run_indexes, batchIdx, data, pending_updates,
                   updates_to_flush, index_queue, unfinished_tasks, wpc, wcur,
                   startedBatches, joinIdx, abandoned, zombies, lastRec, noted,
                   flushCount>>
    /\ UNCHANGED exceptBatch

\* the except branch: second critical section
FlushRestore ==
    /\ mainPc = "flushRestore"
    /\ pending_updates' = RestoreFailed(pending_updates, updates_to_flush)
    /\ flushOutcome' = "failed"
    /\ mainPc' = "flushed"
    /\ UNCHANGED <<round, run_indexes, batchIdx, data, updates_to_flush,
                   index_queue, unfinished_tasks, wpc, wcur, startedBatches, joinIdx,
                   abandoned, zombies, lastRec, remote, noted, flushCount>>
    /\ UNCHANGED exceptBatch

\* the flush call has returned: the loop goes on to the next batch, or main()
\* ends and the next round starts. The batch's queue, threads list and flush
\* locals go out of scope; a thread abandoned inside a row keeps running.
BatchDone ==
    /\ mainPc = "flushed"
    /\ flushCount' = flushCount + 1
    /\ IF batchIdx < NumBatches(run_indexes)
       THEN /\ batchIdx' = batchIdx + 1
            /\ mainPc' = "seed"
       ELSE /\ batchIdx' = 0
            /\ mainPc' = "start"
    /\ zombies' = zombies \cup {Leftover(w) : w \in {x \in abandoned : Busy(wpc[x])}}
    /\ index_queue' = <<>>
    /\ unfinished_tasks' = 0
    /\ wpc' = [w \in Workers |-> "none"]
    /\ wcur' = [w \in Workers |-> 0]
    /\ joinIdx' = 0
    /\ abandoned' = {}
    /\ noted' = {}
    /\ updates_to_flush' = NoRows
    /\ flushOutcome' = "none"
    /\ UNCHANGED <<round, run_indexes, data, pending_updates, lastRec, remote,
                   startedBatches>>
    /\ UNCHANGED exceptBatch

(***************************************************************************)
(* worker() (src/main.py)                                                  *)
(***************************************************************************)
workerFrame == <<mainPc, round, run_indexes, batchIdx, data, updates_to_flush,
                 startedBatches, joinIdx, abandoned, remote, flushOutcome, flushCount>>

\* index = index_queue.get(); the sentinel is acknowledged and ends the loop
WorkerGet(w) ==
    /\ wpc[w] = "idle"
    /\ index_queue # <<>>
    /\ index_queue' = Tail(index_queue)
    /\ IF Head(index_queue) = Sentinel
       THEN /\ wpc' = [wpc EXCEPT ![w] =
                        IF TaskDoneRaises(unfinished_tasks)
                        THEN "diedAtStop" ELSE "stopped"]
            /\ unfinished_tasks' = TaskDoneCount(unfinished_tasks)
            /\ UNCHANGED wcur
       ELSE /\ wpc' = [wpc EXCEPT ![w] = "got"]
            /\ wcur' = [wcur EXCEPT ![w] = Head(index_queue)]
            /\ UNCHANGED unfinished_tasks
    /\ UNCHANGED <<zombies, lastRec, pending_updates, noted>>
    /\ UNCHANGED workerFrame
    /\ UNCHANGED exceptBatch

\* the early task_done() of the "row not found" and "validation failed"
\* branches is inside the try block: when it raises ValueError, "except
\* Exception" calls update_error_to_cache and sleeps 20 s; else "continue"
\* runs the finally clause
EarlyTaskDone(w) ==
    /\ unfinished_tasks' = TaskDoneCount(unfinished_tasks)
    /\ wpc' = [wpc EXCEPT ![w] =
                 IF TaskDoneRaises(unfinished_tasks) THEN "sleep" ELSE "finally"]

\* cache.get(index) returns None: log, task_done(), continue
WorkerRowMissing(w) ==
    /\ wpc[w] = "got"
    /\ wcur[w] \notin data
    /\ EarlyTaskDone(w)
    /\ NoUpdate
    /\ UNCHANGED <<index_queue, wcur, zombies>>
    /\ UNCHANGED workerFrame
    /\ UNCHANGED exceptBatch

\* validate_required_fields fails: update_error_to_cache, task_done(), continue
WorkerRowInvalid(w) ==
    /\ wpc[w] = "got"
    /\ wcur[w] \in data
    /\ UpdateFields(wcur[w], IF TaskDoneRaises(unfinished_tasks) THEN 2 ELSE 1)
    /\ EarlyTaskDone(w)
    /\ UNCHANGED <<index_queue, wcur, zombies>>
    /\ UNCHANGED workerFrame
    /\ UNCHANGED exceptBatch

\* validation passes: process(sb, cached_row) is entered
WorkerRowValid(w) ==
    /\ wpc[w] = "got"
    /\ wcur[w] \in data
    /\ wpc' = [wpc EXCEPT ![w] = "process"]
    /\ NoUpdate
    /\ UNCHANGED <<index_queue, unfinished_tasks, wcur, zombies>>
    /\ UNCHANGED workerFrame
    /\ UNCHANGED exceptBatch

\* process() returns: every path of it ends in update_cache_note; then
\* time.sleep(RELAX_TIME)
WorkerProcessOk(w) ==
    /\ wpc[w] = "process"
    /\ UpdateFields(wcur[w], 1)
    /\ wpc' = [wpc EXCEPT ![w] = "sleep"]
    /\ UNCHANGED <<index_queue, unfinished_tasks, wcur, zombies>>
    /\ UNCHANGED workerFrame
    /\ UNCHANGED exceptBatch

\* process() raises (scraper, marketplace API, pydantic ValidationError): the
\* except branches call update_error_to_cache, which never raises, and
\* "except Exception" sleeps 20 s
WorkerProcessRaises(w) ==
    /\ wpc[w] = "process"
    /\ UpdateFields(wcur[w], 1)
    /\ wpc' = [wpc EXCEPT ![w] = "sleep"]
    /\ UNCHANGED <<index_queue, unfinished_tasks, wcur, zombies>>
    /\ UNCHANGED workerFrame
    /\ UNCHANGED exceptBatch

\* the sleep ends
WorkerWake(w) ==
    /\ wpc[w] = "sleep"
    /\ wpc' = [wpc EXCEPT ![w] = "finally"]
    /\ NoUpdate
    /\ UNCHANGED <<index_queue, unfinished_tasks, wcur, zombies>>
    /\ UNCHANGED workerFrame
    /\ UNCHANGED exceptBatch

\* finally: index_queue.task_done(); a ValueError raised here is not caught
\* and ends the thread
WorkerFinally(w) ==
    /\ wpc[w] = "finally"
    /\ unfinished_tasks' = TaskDoneCount(unfinished_tasks)
    /\ wpc' = [wpc EXCEPT ![w] =
                 IF TaskDoneRaises(unfinished_tasks) THEN "died" ELSE "idle"]
    /\ wcur' = [wcur EXCEPT ![w] =
                  IF TaskDoneRaises(unfinished_tasks) THEN wcur[w] ELSE 0]
    /\ NoUpdate
    /\ UNCHANGED <<index_queue, zombies>>
    /\ UNCHANGED workerFrame
    /\ UNCHANGED exceptBatch

\* an abandoned thread of an earlier batch reaches a note-writing point of
\* its row (get_cache() is the cache current at that time)
ZombieRecords(z) ==
    /\ z \in zombies
    /\ z.pc = "process"
    /\ UpdateFields(z.idx, 1)
    /\ zombies' = (zombies \ {z}) \cup {[z EXCEPT !.pc = "sleep"]}
    /\ UNCHANGED <<index_queue, unfinished_tasks, wpc, wcur>>
    /\ UNCHANGED workerFrame
    /\ UNCHANGED exceptBatch

\* an abandoned thread finishes its row, takes a sentinel of its own queue
\* and ends
ZombieEnds(z) ==
    /\ z \in zombies
    /\ z.pc = "sleep"
    /\ zombies' = zombies \ {z}
    /\ NoUpdate
    /\ UNCHANGED <<index_queue, unfinished_tasks, wpc, wcur>>
    /\ UNCHANGED workerFrame
    /\ UNCHANGED exceptBatch

ZombieSet ==
    [wid : Workers, idx : Rows, pc : {"process", "sleep"}]

BatchNext ==
    \/ MainStart
    \/ InitializeCache
    \/ SeedBatch
    \/ QueueJoin
    \/ PutSentinels
    \/ JoinThread
    \/ FlushBegin
    \/ FlushWrite
    \/ FlushRestore
    \/ BatchDone
    \/ \E w \in Workers : WorkerGet(w)
    \/ \E w \in Workers : WorkerRowMissing(w)
    \/ \E w \in Workers : WorkerRowInvalid(w)
    \/ \E w \in Workers : WorkerRowValid(w)
    \/ \E w \in Workers : WorkerProcessOk(w)
    \/ \E w \in Workers : WorkerProcessRaises(w)
    \/ \E w \in Workers : WorkerWake(w)
    \/ \E w \in Workers : WorkerFinally(w)
    \/ \E z \in ZombieSet : ZombieRecords(z)
    \/ \E z \in ZombieSet : ZombieEnds(z)

(***************************************************************************)
(* Claims about the scheduler and the note cache (checked under SpecBatch) *)
(***************************************************************************)
FlushPhases == {"flush", "flushWrite", "flushRestore"}

BatchRows == {run_indexes[k] :
                k \in ((batchIdx - 1) * THREAD_NUMBER + 1)
                      ..Min(batchIdx * THREAD_NUMBER, Len(run_indexes))}

\* C1: the last note recorded for a row by update_fields is never lost: it
\* has been written to the remote sheet by a successful flush, or it is in
\* pending_updates, or it is in the snapshot of the flush in progress.
C1_NoteNeverDropped ==
    \A i \in Rows :
        lastRec[i] # 0 =>
            \/ remote[i] = lastRec[i]
            \/ pending_updates[i] = lastRec[i]
            \/ updates_to_flush[i] = lastRec[i]

\* C2: once a flush has returned, a failed write has put every snapshot row
\* back into pending_updates with the snapshot's note or a newer one, and a
\* successful write leaves a snapshot row pending only with a newer note.
C2_FlushRequeue ==
    mainPc = "flushed" =>
        /\ flushOutcome = "failed" =>
              \A i \in Rows :
                  updates_to_flush[i] # 0 =>
                      /\ pending_updates[i] # 0
                      /\ pending_updates[i] >= updates_to_flush[i]
        /\ flushOutcome = "ok" =>
              \A i \in Rows :
                  (updates_to_flush[i] # 0 /\ pending_updates[i] # 0) =>
                      pending_updates[i] > updates_to_flush[i]

\* a failed flush has returned; one snapshot row was restored, another one
\* was re-recorded by an abandoned thread while the flush was in flight
C2_Witness ==
    /\ mainPc = "flushed"
    /\ flushOutcome = "failed"
    /\ \E i \in Rows : /\ updates_to_flush[i] # 0
                       /\ pending_updates[i] = updates_to_flush[i]
    /\ \E j \in Rows : /\ updates_to_flush[j] # 0
                       /\ pending_updates[j] > updates_to_flush[j]

\* C3: when the flush of a batch has been performed, update_fields has
\* recorded a note for every index of the batch.
C3_BatchComplete ==
    mainPc = "flushed" => \A i \in BatchRows : i \in noted

\* C4: no worker thread is ended by a row of the cache that failed: a thread
\* leaves its loop only by taking a stop sentinel.
C4_WorkerSurvivesRow ==
    \A w \in Workers : ~(wpc[w] = "died" /\ wcur[w] \in data)

\* C5: while flush_updates_to_sheet runs, every thread of the batch has
\* terminated or was abandoned by a timed-out join, and the threads of a
\* batch are started only when the flushes of all earlier batches have
\* returned.
C5_PhasesSequential ==
    /\ mainPc \in FlushPhases =>
          \A w \in Workers : ~Alive(wpc[w]) \/ w \in abandoned
    /\ startedBatches <= flushCount + 1
    /\ (\E w \in Workers : wpc[w] # "none") => startedBatches = flushCount + 1

\* the flush of a second batch is writing while an abandoned thread of that
\* batch is still inside its row and the other thread has stopped
C5_Witness ==
    /\ mainPc = "flushWrite"
    /\ startedBatches = 2
    /\ \E w \in abandoned : Busy(wpc[w])
    /\ \E w \in Workers : wpc[w] = "stopped"

(***************************************************************************)
(* Part III: GSheetCacheManager (app/gsheet_cache/manager.py)              *)
(*                                                                         *)
(* The manager is a module-level object shared by the worker threads,      *)
(* which call add_sheet before every read (app/sheet/models.py). None of   *)
(* its methods takes a lock, so a thread switch can fall between any two   *)
(* steps of a call. The constructor of CacheSheet is reduced here to its   *)
(* three stages: __load_keys, the remote read, the instance returned.      *)
(***************************************************************************)
\* threads calling the manager, tables they address, remote reads explored
MaxThreads == 2
MaxTables == 1
MaxLoads == 2
\* largest number of key files in the keys directory
MaxKeyFiles == 2

Threads == 1..MaxThreads
TableKeys == 1..MaxTables
\* the keys directory does not exist
Missing == -1
\* the key is not in self.sheets
NoInstance == 0

RegStart ==
    /\ mgr = "none"
    /\ sheets = [k \in TableKeys |-> NoInstance]
    /\ made = [k \in TableKeys |-> {}]
    /\ rets = [k \in TableKeys |-> {}]
    /\ loads = 0
    /\ tpc = [t \in Threads |-> "idle"]
    /\ tkey = [t \in Threads |-> 1]
    /\ tnew = [t \in Threads |-> NoInstance]
    /\ tres = [t \in Threads |-> "none"]

\* no thread is inside a CacheSheet method
ThreadsIdle ==
    /\ gpc = [t \in Threads |-> "idle"]
    /\ gcell = [t \in Threads |-> <<1, 1>>]
    /\ gval = [t \in Threads |-> <<>>]

\* no offer, no target
NoOffer == [id |-> 0, unitPrice |-> 0, black |-> FALSE]
NoTarget == -1

\* the row of the engine at rest: a floor of one real unit, nothing else
RestProduct ==
    [min_price_value |-> 100, max_price_value |-> 0, DONGIAGIAM_MIN |-> 0,
     DONGIAGIAM_MAX |-> 0, DONGIA_LAMTRON |-> 0, CHECK_PRODUCT_COMPARE |-> 1,
     UNIT_STOCK |-> 1, MIN_UNIT_PER_ORDER |-> 0]

\* the pricing engine at rest: nothing computed
PricingIdle ==
    /\ product = RestProduct
    /\ my_offer = [amount |-> 0,
                   commissionRule |-> [fixedAmount |-> 0, percentValue |-> 0]]
    /\ min_unit_price_offer = NoOffer
    /\ nOffers = 0
    /\ offers = <<>>
    /\ ppc = "idle"
    /\ target_unit_price = NoTarget
    /\ branch = "none"
    /\ customer_pay = 0
    /\ priceiwtr = 0
    /\ price_back = 0
    /\ updated = FALSE

\* the attributes of a CachedRow (the fields of the dataclass)
CachedRowFields ==
    {"index", "Product_name", "Product_link", "Product_compare", "Category",
     "Check_product_compare", "min_price_value", "max_price_value",
     "stock_value", "blacklist_value", "include_keywords_value",
     "exclude_keywords_value", "DONGIAGIAM_MIN", "DONGIAGIAM_MAX",
     "DONGIA_LAMTRON", "Relax_time", "Note", "Last_update"}

\* a row with a value in every field
FullRow == [f \in CachedRowFields |-> "value"]

\* no row is being validated
ValidationIdle == cached_row = FullRow /\ is_valid = "none"

\* no list is being split and no row is being handled
SplitIdle ==
    /\ lst = <<>> /\ chunk_size = 1 /\ batches = <<>>
    /\ fl_index = 1 /\ fl_pc = "idle" /\ fl_mode = 0
    /\ fl_note = <<>> /\ fl_update = <<>> /\ fl_raised = <<>>

\* the manager, the threads and the pricing engine at rest, for the
\* specifications of Parts I and II
RegIdle ==
    /\ RegStart
    /\ keys_dir = 1
    /\ ThreadsIdle
    /\ PricingIdle
    /\ ValidationIdle
    /\ SplitIdle

\* GSheetCacheManager.__init__ (the module-level manager): __check_keys_dir
ManagerInit ==
    /\ mgr = "none"
    /\ mgr' = IF keys_dir = Missing THEN "failed" ELSE "ready"
    /\ UNCHANGED <<keys_dir, sheets, made, rets, loads, tpc, tkey, tnew, tres>>
    /\ UNCHANGED exceptRegistry

\* a call ends: the thread is idle again with the call's outcome, the locals
\* of the call are gone
Ends(t, outcome) ==
    /\ tpc' = [tpc EXCEPT ![t] = "idle"]
    /\ tres' = [tres EXCEPT ![t] = outcome]
    /\ tkey' = [tkey EXCEPT ![t] = 1]
    /\ tnew' = [tnew EXCEPT ![t] = NoInstance]

\* add_sheet: "if key not in self.sheets"
AddSheetCheck(t, k) ==
    /\ mgr = "ready"
    /\ tpc[t] = "idle"
    /\ tkey' = [tkey EXCEPT ![t] = k]
    /\ tpc' = [tpc EXCEPT ![t] =
                 IF sheets[k] = NoInstance THEN "initKeys" ELSE "addReturn"]
    /\ tres' = [tres EXCEPT ![t] = "none"]
    /\ tnew' = [tnew EXCEPT ![t] = NoInstance]
    /\ UNCHANGED <<keys_dir, mgr, sheets, made, rets, loads>>
    /\ UNCHANGED exceptRegistry

\* CacheSheet(sheet_id, sheet_name, config) called without the manager
NewCacheSheet(t, k) ==
    /\ tpc[t] = "idle"
    /\ tkey' = [tkey EXCEPT ![t] = k]
    /\ tpc' = [tpc EXCEPT ![t] = "newKeys"]
    /\ tres' = [tres EXCEPT ![t] = "none"]
    /\ tnew' = [tnew EXCEPT ![t] = NoInstance]
    /\ UNCHANGED <<keys_dir, mgr, sheets, made, rets, loads>>
    /\ UNCHANGED exceptRegistry

\* __load_keys skipping the check that key files were found
KeysLoadedUnchecked(dir) == dir # Missing

\* __load_keys returns: the directory exists and holds a .json file
KeysLoaded(dir) == dir # Missing /\ dir # 0

\* CacheSheet.__init__ up to __load_keys: the directory must exist and hold
\* at least one .json file
CacheInitKeys(t) ==
    /\ tpc[t] \in {"initKeys", "newKeys"}
    /\ IF KeysLoaded(keys_dir)
       THEN /\ tpc' = [tpc EXCEPT ![t] =
                         IF tpc[t] = "initKeys" THEN "initLoad" ELSE "newLoad"]
            /\ UNCHANGED <<tres, tkey, tnew>>
       ELSE Ends(t, IF keys_dir = Missing THEN "FileNotFoundError"
                    ELSE "ValueError")
    /\ UNCHANGED <<keys_dir, mgr, sheets, made, rets, loads>>
    /\ UNCHANGED exceptRegistry

\* the id of the instance that the n-th remote read completes
NewInstance(n) == n

\* CacheSheet.__init__: __load_values_from_sheet succeeds and the constructor
\* returns a new instance
CacheInitLoaded(t) ==
    /\ tpc[t] \in {"initLoad", "newLoad"}
    /\ loads < MaxLoads
    /\ loads' = loads + 1
    /\ IF tpc[t] = "initLoad"
       THEN /\ made' = [made EXCEPT ![tkey[t]] =
                          @ \cup {NewInstance(loads + 1)}]
            /\ tnew' = [tnew EXCEPT ![t] = NewInstance(loads + 1)]
            /\ tpc' = [tpc EXCEPT ![t] = "addStore"]
            /\ UNCHANGED <<tres, tkey>>
       ELSE /\ Ends(t, "constructed")
            /\ UNCHANGED made
    /\ UNCHANGED <<keys_dir, mgr, sheets, rets>>
    /\ UNCHANGED exceptRegistry

\* CacheSheet.__init__: __load_values_from_sheet raises (APIError after the
\* retries, or KeyError on an empty table)
CacheInitLoadRaises(t) ==
    /\ tpc[t] \in {"initLoad", "newLoad"}
    /\ loads < MaxLoads
    /\ loads' = loads + 1
    /\ Ends(t, "LoadError")
    /\ UNCHANGED <<keys_dir, mgr, sheets, made, rets>>
    /\ UNCHANGED exceptRegistry

\* add_sheet: self.sheets[key] = <the new instance>
AddSheetStore(t) ==
    /\ tpc[t] = "addStore"
    /\ sheets' = [sheets EXCEPT ![tkey[t]] = tnew[t]]
    /\ tpc' = [tpc EXCEPT ![t] = "addReturn"]
    /\ UNCHANGED <<keys_dir, mgr, made, rets, loads, tkey, tnew, tres>>
    /\ UNCHANGED exceptRegistry

\* add_sheet: return self.sheets[key] (KeyError if the key was removed since)
AddSheetReturn(t) ==
    /\ tpc[t] = "addReturn"
    /\ IF sheets[tkey[t]] = NoInstance
       THEN Ends(t, "KeyError") /\ UNCHANGED rets
       ELSE /\ Ends(t, "returned")
            /\ rets' = [rets EXCEPT ![tkey[t]] = @ \cup {sheets[tkey[t]]}]
    /\ UNCHANGED <<keys_dir, mgr, sheets, made, loads>>
    /\ UNCHANGED exceptRegistry

\* remove_sheet: "if key in self.sheets" (a key that is absent: nothing done)
RemoveSheetCheck(t, k) ==
    /\ mgr = "ready"
    /\ tpc[t] = "idle"
    /\ sheets[k] # NoInstance
    /\ tkey' = [tkey EXCEPT ![t] = k]
    /\ tpc' = [tpc EXCEPT ![t] = "removeDel"]
    /\ tres' = [tres EXCEPT ![t] = "none"]
    /\ tnew' = [tnew EXCEPT ![t] = NoInstance]
    /\ UNCHANGED <<keys_dir, mgr, sheets, made, rets, loads>>
    /\ UNCHANGED exceptRegistry

\* remove_sheet: del self.sheets[key] (KeyError if the key was removed since)
RemoveSheetDel(t) ==
    /\ tpc[t] = "removeDel"
    /\ IF sheets[tkey[t]] = NoInstance
       THEN Ends(t, "KeyError") /\ UNCHANGED sheets
       ELSE /\ Ends(t, "removed")
            /\ sheets' = [sheets EXCEPT ![tkey[t]] = NoInstance]
    /\ UNCHANGED <<keys_dir, mgr, made, rets, loads>>
    /\ UNCHANGED exceptRegistry

\* clear_all_sheets
ClearAllSheets(t) ==
    /\ mgr = "ready"
    /\ tpc[t] = "idle"
    /\ \E k \in TableKeys : sheets[k] # NoInstance
    /\ sheets' = [k \in TableKeys |-> NoInstance]
    /\ tres' = [tres EXCEPT ![t] = "cleared"]
    /\ UNCHANGED <<keys_dir, mgr, made, rets, loads, tpc, tkey, tnew>>
    /\ UNCHANGED exceptRegistry

RegistryNext ==
    \/ ManagerInit
    \/ \E t \in Threads, k \in TableKeys : NewCacheSheet(t, k)
    \/ \E t \in Threads, k \in TableKeys : AddSheetCheck(t, k)
    \/ \E t \in Threads : CacheInitKeys(t)
    \/ \E t \in Threads : CacheInitLoaded(t)
    \/ \E t \in Threads : CacheInitLoadRaises(t)
    \/ \E t \in Threads : AddSheetStore(t)
    \/ \E t \in Threads : AddSheetReturn(t)
    \/ \E t \in Threads, k \in TableKeys : RemoveSheetCheck(t, k)
    \/ \E t \in Threads : RemoveSheetDel(t)
    \/ \E t \in Threads : ClearAllSheets(t)

(***************************************************************************)
(* Part II: CacheSheet (app/gsheet_cache/sheet.py)                         *)
(*                                                                         *)
(* A cell value is a string, modelled as a sequence of characters; a grid  *)
(* is a list of rows, a row a list of values. Row and column indices are   *)
(* 0-based as in the code; an address is the (row, col) pair that          *)
(* a1_to_rowcol returns, 1-based.                                          *)
(***************************************************************************)
\* largest 1-based row and column number of an address used by the model
MaxCoord == 2
\* number of update_value calls explored
MaxUpdates == 2
\* number of flush_to_sheet calls explored
MaxFlushes == 1
\* largest key pool and largest max_retries explored by SpecKeys
MaxKeys == 3
MaxRetries == 4
\* key pool of the instance explored by SpecSheet
SheetKeys == 1
\* default of the max_retries parameter of CacheSheet.__init__
DefaultMaxRetries == 3

Quote == "\""
Comma == ","
\* Python's None where a string is expected
NoneVal == <<"None">>

Blank == <<>>
Values == {Blank, <<"x">>, <<Quote, Comma>>}

\* Python's None as a returned cell, and an exception leaving the method
Raised == <<"raised">>
\* _current_key_index / _http_client are None
NoKey == -1
\* a bound of a GridRange is None
Unbounded == -1

Addresses == (1..MaxCoord) \X (1..MaxCoord)

\* __a1_to_indices: a1_to_rowcol(cell), minus one each
A1ToIndices(cell) == <<cell[1] - 1, cell[2] - 1>>

RECURSIVE Repeat(_, _)
Repeat(x, n) == IF n <= 0 THEN <<>> ELSE <<x>> \o Repeat(x, n - 1)

\* __ensure_cell_exists padding with None instead of ""
EnsureCellExistsNone(d, row, col) ==
    LET rows == IF Len(d) <= row THEN d \o Repeat(<<>>, row + 1 - Len(d)) ELSE d
        r == rows[row + 1]
        padded == IF Len(r) <= col THEN r \o Repeat(NoneVal, col + 1 - Len(r)) ELSE r
    IN [rows EXCEPT ![row + 1] = padded]

\* __ensure_cell_exists: append empty rows, then pad the row with ""
EnsureCellExists(d, row, col) ==
    LET rows == IF Len(d) <= row THEN d \o Repeat(<<>>, row + 1 - Len(d)) ELSE d
        r == rows[row + 1]
        padded == IF Len(r) <= col THEN r \o Repeat(Blank, col + 1 - Len(r)) ELSE r
    IN [rows EXCEPT ![row + 1] = padded]

\* update_value without the assignment data[row][col] = value
SetCellSkipped(d, row, col, v) == d

\* data[row][col] = value
SetCell(d, row, col, v) == [d EXCEPT ![row + 1][col + 1] = v]

\* data[row][col] of a list of lists: the value, or IndexError
IndexError == <<"IndexError">>
Subscript(d, row, col) ==
    IF row < Len(d) /\ col < Len(d[row + 1]) THEN d[row + 1][col + 1]
    ELSE IndexError

\* get_value without the "except IndexError" clause
GetValueNoExcept(d, cell) ==
    LET rc == A1ToIndices(cell)
        v == Subscript(d, rc[1], rc[2])
    IN IF v = IndexError THEN Raised
       ELSE IF v = Blank THEN NoneVal ELSE v

\* get_value on the data returned by __read_cache_data
GetValue(d, cell) ==
    LET rc == A1ToIndices(cell)
        v == Subscript(d, rc[1], rc[2])
    IN IF v = IndexError THEN NoneVal
       ELSE IF v = Blank THEN NoneVal ELSE v

\* Python's "x or default" on an optional int: None and 0 give the default
PyOr(x, default) == IF x = Unbounded \/ x = 0 THEN default ELSE x

\* a1_range_to_grid_range of a single cell "X9" or "X9:X9"
CellRange(cell) ==
    [startRowIndex |-> cell[1] - 1, endRowIndex |-> cell[1],
     startColumnIndex |-> cell[2] - 1, endColumnIndex |-> cell[2]]

\* the body of get_range's inner loop: one cell of the result
RangeCell(d, r, c) ==
    LET v == Subscript(d, r, c)
    IN IF v = IndexError THEN NoneVal
       ELSE IF v = Blank THEN NoneVal ELSE v

\* range(a, b) as a list
PyRange(a, b) == [k \in 1..(IF b > a THEN b - a ELSE 0) |-> a + k - 1]

\* get_range on the data returned by __read_cache_data
GetRange(d, g) ==
    LET rs == PyRange(PyOr(g.startRowIndex, 0), PyOr(g.endRowIndex, Len(d)))
        cs(r) == PyRange(PyOr(g.startColumnIndex, 0),
                         PyOr(g.endColumnIndex,
                              IF r < Len(d) THEN Len(d[r + 1]) ELSE 0))
    IN [k \in 1..Len(rs) |->
           [j \in 1..Len(cs(rs[k])) |-> RangeCell(d, rs[k], cs(rs[k])[j])]]

(***************************************************************************)
(* The CSV file: csv.writer / csv.reader with the default (excel) dialect. *)
(* The file is a list of lines, a line a sequence of characters.           *)
(***************************************************************************)
RECURSIVE DoubleQuotes(_)
\* doublequote=True: every quote character of a quoted field is written twice
DoubleQuotes(f) ==
    IF f = <<>> THEN <<>>
    ELSE (IF Head(f) = Quote THEN <<Quote, Quote>> ELSE <<Head(f)>>)
         \o DoubleQuotes(Tail(f))

\* QUOTE_MINIMAL: a field is quoted when it holds the delimiter or the quote
\* character
NeedsQuotes(f) == \E k \in 1..Len(f) : f[k] \in {Quote, Comma}

\* a quoted field written without doubling its quote characters
WriteFieldNoDoubling(f) ==
    IF NeedsQuotes(f) THEN <<Quote>> \o f \o <<Quote>> ELSE f

WriteField(f) ==
    IF NeedsQuotes(f) THEN <<Quote>> \o DoubleQuotes(f) \o <<Quote>> ELSE f

RECURSIVE JoinFields(_)
JoinFields(row) ==
    IF row = <<>> THEN <<>>
    ELSE IF Len(row) = 1 THEN WriteField(row[1])
    ELSE WriteField(row[1]) \o <<Comma>> \o JoinFields(Tail(row))

\* writer.writerow: a row whose only field is empty is written as ""
WriteRow(row) ==
    IF row = <<Blank>> THEN <<Quote, Quote>> ELSE JoinFields(row)

\* writer.writerows
WriteRows(d) == [k \in 1..Len(d) |-> WriteRow(d[k])]

RECURSIVE ParseLine(_, _, _, _, _)
\* csv.reader's state machine over one line; st is the parser state, cur the
\* field being built, fields the fields saved so far
ParseLine(line, k, st, cur, fields) ==
    IF k > Len(line)
    THEN IF st = "START_RECORD" THEN fields ELSE Append(fields, cur)
    ELSE LET ch == line[k] IN
         CASE st \in {"START_RECORD", "START_FIELD"} ->
                 IF ch = Quote THEN ParseLine(line, k + 1, "IN_QUOTED_FIELD", cur, fields)
                 ELSE IF ch = Comma
                      THEN ParseLine(line, k + 1, "START_FIELD", <<>>, Append(fields, cur))
                      ELSE ParseLine(line, k + 1, "IN_FIELD", Append(cur, ch), fields)
           [] st = "IN_FIELD" ->
                 IF ch = Comma
                 THEN ParseLine(line, k + 1, "START_FIELD", <<>>, Append(fields, cur))
                 ELSE ParseLine(line, k + 1, "IN_FIELD", Append(cur, ch), fields)
           [] st = "IN_QUOTED_FIELD" ->
                 IF ch = Quote
                 THEN ParseLine(line, k + 1, "QUOTE_IN_QUOTED_FIELD", cur, fields)
                 ELSE ParseLine(line, k + 1, "IN_QUOTED_FIELD", Append(cur, ch), fields)
           [] st = "QUOTE_IN_QUOTED_FIELD" ->
                 IF ch = Quote
                 THEN ParseLine(line, k + 1, "IN_QUOTED_FIELD", Append(cur, ch), fields)
                 ELSE IF ch = Comma
                      THEN ParseLine(line, k + 1, "START_FIELD", <<>>, Append(fields, cur))
                      ELSE ParseLine(line, k + 1, "IN_FIELD", Append(cur, ch), fields)

\* list(csv.reader(f))
ReadRows(file) ==
    [k \in 1..Len(file) |-> ParseLine(file[k], 1, "START_RECORD", <<>>, <<>>)]

(***************************************************************************)
(* The remote table (gspread HTTPClient.values_get / values_batch_update)  *)
(***************************************************************************)
EmptyTable == [a \in Addresses |-> Blank]

\* remote tables the model starts from: empty, one cell, a ragged table
InitialTables ==
    {EmptyTable,
     [EmptyTable EXCEPT ![<<1, 1>>] = <<"x">>],
     [EmptyTable EXCEPT ![<<1, 1>>] = <<"x">>, ![<<2, 2>>] = <<Quote, Comma>>]}

MaxOf(S) == CHOOSE x \in S : \A y \in S : y <= x

\* values_get of the whole sheet: trailing empty rows and trailing empty
\* cells of a row are omitted; an empty sheet has no "values" key at all
ValuesGet(t) ==
    LET used == {a \in Addresses : t[a] # Blank}
        lastCol(r) == IF \E a \in used : a[1] = r
                      THEN MaxOf({a[2] : a \in {b \in used : b[1] = r}})
                      ELSE 0
    IN IF used = {}
       THEN [hasValues |-> FALSE, values |-> <<>>]
       ELSE [hasValues |-> TRUE,
             values |-> [r \in 1..MaxOf({a[1] : a \in used}) |->
                           [c \in 1..lastCol(r) |-> t[<<r, c>>]]]]

RECURSIVE ValuesBatchUpdate(_, _)
\* values_batch_update with valueInputOption RAW: each listed range takes its
\* value as it is
ValuesBatchUpdate(t, b) ==
    IF b = <<>> THEN t
    ELSE ValuesBatchUpdate([t EXCEPT ![Head(b).range] = Head(b).value], Tail(b))

(***************************************************************************)
(* Key pool                                                                *)
(***************************************************************************)
KeyState == [failed |-> failed_keys, cur |-> current_key_index,
             http |-> http_client]

\* __select_random_key choosing among all keys, failed ones included
AvailableIndicesAll(failed, K) == 0..(K - 1)

\* available_indices of __select_random_key
AvailableIndices(failed, K) == {i \in 0..(K - 1) : i \notin failed}

\* __select_random_key: the key states random.choice may leave
SelectRandomKey(ks, K) ==
    LET avail == AvailableIndices(ks.failed, K)
    IN IF avail = {}
       THEN {[ks EXCEPT !.failed = {}, !.cur = c] : c \in 0..(K - 1)}
       ELSE {[ks EXCEPT !.cur = c] : c \in avail}

\* __get_http_client
GetHttpClient(ks, K) ==
    IF ks.http = NoKey
    THEN {[k EXCEPT !.http = k.cur] : k \in SelectRandomKey(ks, K)}
    ELSE {ks}

\* __rotate_key dropping the client without marking the current key failed
MarkFailedSkipped(ks) == [failed |-> ks.failed, cur |-> ks.cur, http |-> NoKey]

\* the first half of __rotate_key: mark the current key, drop the client
MarkFailed(ks) ==
    [failed |-> IF ks.cur # NoKey THEN ks.failed \cup {ks.cur} ELSE ks.failed,
     cur |-> ks.cur, http |-> NoKey]

\* __rotate_key keeping the connection it had
RotateKeyStaleClient(ks, K) ==
    {[k EXCEPT !.http = ks.http] : k \in SelectRandomKey(MarkFailed(ks), K)}

\* __rotate_key
RotateKey(ks, K) ==
    {[k EXCEPT !.http = k.cur] : k \in SelectRandomKey(MarkFailed(ks), K)}

SetKeys(k) ==
    /\ failed_keys' = k.failed
    /\ current_key_index' = k.cur
    /\ http_client' = k.http

(***************************************************************************)
(* CacheSheet: construction and the retrying executor                      *)
(***************************************************************************)
NoRoundTrip == [stage |-> "none", cell |-> <<1, 1>>, value |-> Blank]
NoUpd == [set |-> FALSE, cell |-> <<1, 1>>, value |-> Blank]

SheetStart ==
    /\ inst = "none"
    /\ failed_keys = {}
    /\ current_key_index = NoKey
    /\ http_client = NoKey
    /\ loaded = FALSE
    /\ cache_data = <<>>
    /\ dirty = FALSE
    /\ cache_file = <<>>
    /\ op = "none"
    /\ attempt = 0
    /\ body = <<>>
    /\ nUpdates = 0
    /\ nFlushes = 0
    /\ lastUpd = NoUpd
    /\ rt = NoRoundTrip
    /\ invocations = 0
    /\ rlFailures = 0
    /\ rotations = 0
    /\ events = <<>>
    /\ startFailed = {}
    /\ marked = {}
    /\ execResult = "none"

\* the initial state of SpecBatch: main not started, Part II at rest
SheetIdle ==
    /\ BatchInit
    /\ RegIdle
    /\ SheetStart
    /\ keys = 1
    /\ max_retries = DefaultMaxRetries
    /\ remoteTable = EmptyTable

\* one CacheSheet with the default max_retries over any of the initial tables
SheetInit ==
    /\ BatchInit
    /\ RegIdle
    /\ SheetStart
    /\ keys = SheetKeys
    /\ max_retries = DefaultMaxRetries
    /\ remoteTable \in InitialTables

\* any pool size and retry budget, over a table that is not empty
KeysInit ==
    /\ BatchInit
    /\ RegIdle
    /\ SheetStart
    /\ keys \in 1..MaxKeys
    /\ max_retries \in 1..MaxRetries
    /\ remoteTable = [EmptyTable EXCEPT ![<<1, 1>>] = <<"x">>]

\* the steps of __execute_with_retry that the record of an operation keeps:
\* operation(*args) called in attempt n, __rotate_key(), time.sleep(n)
Invoked(n) == [e |-> "invoke", n |-> n]
Rotated == [e |-> "rotate", n |-> 0]
Slept(n) == [e |-> "sleep", n |-> n]

\* a back-off that grows linearly
WaitTimeLinear(a) == 2 * a

\* wait_time = 2**attempt
WaitTime(a) == 2 ^ a

\* a public method is called: the record kept of the last executed operation
\* is dropped
ForgetExecution ==
    /\ attempt' = 0
    /\ invocations' = 0
    /\ rlFailures' = 0
    /\ rotations' = 0
    /\ events' = <<>>
    /\ startFailed' = {}
    /\ marked' = {}
    /\ execResult' = "none"

\* entering __execute_with_retry
EnterExecutor(o) ==
    /\ op' = o
    /\ attempt' = 0
    /\ invocations' = 0
    /\ rlFailures' = 0
    /\ rotations' = 0
    /\ events' = <<>>
    /\ execResult' = "none"

\* CacheSheet.__init__: a fresh instance (the cache file path and the remote
\* table are those of the sheet), up to the call of __load_values_from_sheet
Construct ==
    /\ op = "none"
    /\ inst' = "loading"
    /\ failed_keys' = {}
    /\ current_key_index' = NoKey
    /\ http_client' = NoKey
    /\ loaded' = FALSE
    /\ cache_data' = <<>>
    /\ dirty' = FALSE
    /\ EnterExecutor("load")
    /\ startFailed' = {}
    /\ marked' = {}
    /\ body' = <<>>
    /\ lastUpd' = NoUpd
    /\ rt' = IF rt.stage = "flushed" THEN [rt EXCEPT !.stage = "reloading"]
             ELSE NoRoundTrip
    /\ UNCHANGED <<keys, max_retries, cache_file, remoteTable, nUpdates, nFlushes>>
    /\ UNCHANGED exceptSheet

\* an attempt returns: _fetch's result is written to the cache file (a
\* response without "values" raises KeyError in the constructor), _update's
\* write has reached the remote table
ExecSucceeds ==
    /\ op # "none"
    /\ \E k \in GetHttpClient(KeyState, keys) : SetKeys(k)
    /\ IF op = "load"
       THEN LET res == ValuesGet(remoteTable) IN
            /\ inst' = IF res.hasValues THEN "ready" ELSE "failed"
            /\ cache_file' = IF res.hasValues THEN WriteRows(res.values)
                             ELSE <<>>
            /\ rt' = IF rt.stage = "reloading"
                     THEN [rt EXCEPT !.stage =
                             IF res.hasValues THEN "fresh" ELSE "freshFailed"]
                     ELSE NoRoundTrip
            /\ UNCHANGED remoteTable
       ELSE /\ remoteTable' = ValuesBatchUpdate(remoteTable, body)
            /\ rt' = IF rt.stage = "flushing"
                     THEN [rt EXCEPT !.stage = "flushed"] ELSE NoRoundTrip
            /\ UNCHANGED <<inst, cache_file>>
    /\ op' = "none"
    /\ execResult' = "ok"
    /\ invocations' = invocations + 1
    /\ events' = Append(events, Invoked(attempt))
    /\ UNCHANGED <<keys, max_retries, loaded, cache_data, dirty, attempt, body,
                   nUpdates, nFlushes, lastUpd, rlFailures, rotations, startFailed,
                   marked>>
    /\ UNCHANGED exceptSheet

\* an exception leaves __execute_with_retry
ExecutorRaises ==
    /\ op' = "none"
    /\ execResult' = "raised"
    /\ inst' = IF op = "load" THEN "failed" ELSE inst
    /\ rt' = NoRoundTrip

\* an APIError: without a response, or with a status code and a message that
\* may hold a rate-limit keyword
ApiErrors ==
    {[hasResponse |-> FALSE, status |-> 0, keyword |-> FALSE]} \cup
    [hasResponse : {TRUE}, status : {403, 429, 500}, keyword : BOOLEAN]

\* __is_rate_limit_error
IsRateLimitError(e) ==
    IF e.hasResponse
    THEN IF e.status \in {429, 403} THEN TRUE ELSE e.keyword
    ELSE FALSE

\* the executor retrying whatever the attempt number
AttemptsRemainAlways(a, n) == TRUE

\* "attempt < self.max_retries - 1" with attempt in range(max_retries)
AttemptsRemain(a, n) == a < n - 1

\* the executor rotating the key before it re-raises a non-rate-limit error
PropagateRotating(ks, K) == RotateKey(ks, K)

\* the branch of a non-rate-limit error: re-raise, the key state is left alone
Propagate(ks, K) == {ks}

\* rate-limit APIError with attempts remaining: rotate, back off, next attempt
ExecRateLimitedRetry ==
    /\ op # "none"
    /\ \E e \in ApiErrors : IsRateLimitError(e)
    /\ AttemptsRemain(attempt, max_retries)
    /\ invocations' = invocations + 1
    /\ \E k1 \in GetHttpClient(KeyState, keys) :
          /\ marked' = MarkFailed(k1).failed
          /\ \E k2 \in RotateKey(k1, keys) : SetKeys(k2)
    /\ attempt' = attempt + 1
    /\ rlFailures' = rlFailures + 1
    /\ rotations' = rotations + 1
    /\ events' = events \o <<Invoked(attempt), Rotated, Slept(WaitTime(attempt))>>
    /\ UNCHANGED <<inst, keys, max_retries, loaded, cache_data, dirty,
                   cache_file, remoteTable, op, body, nUpdates, nFlushes, lastUpd, rt,
                   startFailed, execResult>>
    /\ UNCHANGED exceptSheet

\* rate-limit APIError on the last attempt: re-raised
ExecRateLimitedRaise ==
    /\ op # "none"
    /\ \E e \in ApiErrors : IsRateLimitError(e)
    /\ ~AttemptsRemain(attempt, max_retries)
    /\ invocations' = invocations + 1
    /\ \E k \in GetHttpClient(KeyState, keys) : SetKeys(k)
    /\ rlFailures' = rlFailures + 1
    /\ events' = Append(events, Invoked(attempt))
    /\ ExecutorRaises
    /\ UNCHANGED <<keys, max_retries, loaded, cache_data, dirty, cache_file,
                   remoteTable, attempt, body, nUpdates, nFlushes, lastUpd, rotations,
                   startFailed, marked>>
    /\ UNCHANGED exceptSheet

\* APIError that is not a rate-limit error: re-raised at once
ExecOtherError ==
    /\ op # "none"
    /\ \E e \in ApiErrors : ~IsRateLimitError(e)
    /\ \E k1 \in GetHttpClient(KeyState, keys) :
          \E k \in Propagate(k1, keys) : SetKeys(k)
    /\ invocations' = invocations + 1
    /\ events' = Append(events, Invoked(attempt))
    /\ ExecutorRaises
    /\ UNCHANGED <<keys, max_retries, loaded, cache_data, dirty, cache_file,
                   remoteTable, attempt, body, nUpdates, nFlushes, lastUpd, rlFailures,
                   rotations, startFailed, marked>>
    /\ UNCHANGED exceptSheet

\* reset_failed_keys
ResetFailedKeys ==
    /\ inst = "ready"
    /\ op = "none"
    /\ failed_keys # {}
    /\ failed_keys' = {}
    /\ ForgetExecution
    /\ UNCHANGED <<inst, keys, max_retries, current_key_index, http_client,
                   loaded, cache_data, dirty, cache_file, remoteTable, op,
                   body, nUpdates, nFlushes, lastUpd, rt>>
    /\ UNCHANGED exceptSheet

(***************************************************************************)
(* CacheSheet: the grid                                                    *)
(***************************************************************************)
\* __read_cache_data returning the in-memory grid without reading the file
ReadCacheDataNoFile == cache_data

\* __read_cache_data: the in-memory grid, read from the file when it is None
ReadCacheData == IF loaded THEN cache_data ELSE ReadRows(cache_file)

CanCall == inst = "ready" /\ op = "none"

\* get_value / get_range: the only state change is the lazy read of the file
GetValueCall ==
    /\ CanCall
    /\ ~loaded
    /\ cache_data' = ReadCacheData
    /\ loaded' = TRUE
    /\ ForgetExecution
    /\ UNCHANGED <<inst, keys, max_retries, failed_keys, current_key_index,
                   http_client, dirty, cache_file, remoteTable, op, body,
                   nUpdates, nFlushes, lastUpd, rt>>
    /\ UNCHANGED exceptSheet

\* update_value leaving the dirty flag as it was
MarkDirtySkipped(d) == d

\* "self._dirty = True" of update_value
MarkDirty(d) == TRUE

\* update_value
UpdateValueCall(cell, v) ==
    /\ CanCall
    /\ nUpdates < MaxUpdates
    /\ LET rc == A1ToIndices(cell) IN
       cache_data' = SetCell(EnsureCellExists(ReadCacheData, rc[1], rc[2]),
                             rc[1], rc[2], v)
    /\ loaded' = TRUE
    /\ dirty' = MarkDirty(dirty)
    /\ nUpdates' = nUpdates + 1
    /\ lastUpd' = [set |-> TRUE, cell |-> cell, value |-> v]
    /\ rt' = [stage |-> "updated", cell |-> cell, value |-> v]
    /\ ForgetExecution
    /\ UNCHANGED <<inst, keys, max_retries, failed_keys, current_key_index,
                   http_client, cache_file, remoteTable, op, body, nFlushes>>
    /\ UNCHANGED exceptSheet

\* flush_cache that never writes the file
FlushedFileUnwritten == cache_file

\* flush_cache applied to (loaded, data, dirty, file): the file afterwards
FlushedFile == IF dirty /\ loaded THEN WriteRows(cache_data) ELSE cache_file
FlushedDirty == IF dirty /\ loaded THEN FALSE ELSE dirty

\* flush_cache
FlushCacheCall ==
    /\ CanCall
    /\ dirty
    /\ cache_file' = FlushedFile
    /\ dirty' = FlushedDirty
    /\ lastUpd' = NoUpd
    /\ rt' = NoRoundTrip
    /\ ForgetExecution
    /\ UNCHANGED <<inst, keys, max_retries, failed_keys, current_key_index,
                   http_client, loaded, cache_data, remoteTable, op, body,
                   nUpdates, nFlushes>>
    /\ UNCHANGED exceptSheet

RECURSIVE EnsureAll(_, _)
\* the loop of flush_to_sheet over cells: every listed cell is made to exist
EnsureAll(d, cells) ==
    IF cells = <<>> THEN d
    ELSE LET rc == A1ToIndices(Head(cells))
         IN EnsureAll(EnsureCellExists(d, rc[1], rc[2]), Tail(cells))

\* data_body holding only the first listed cell
DataBodyFirstOnly(d, cells) ==
    [k \in 1..1 |->
        [range |-> cells[k],
         value |-> LET rc == A1ToIndices(cells[k]) IN d[rc[1] + 1][rc[2] + 1]]]

\* data_body of flush_to_sheet
DataBody(d, cells) ==
    [k \in 1..Len(cells) |->
        [range |-> cells[k],
         value |-> LET rc == A1ToIndices(cells[k]) IN d[rc[1] + 1][rc[2] + 1]]]

\* the cell lists flush_to_sheet is called with
CellLists ==
    {<<a>> : a \in Addresses} \cup
    {<<a, b>> : a \in Addresses, b \in {<<1, 1>>}}

\* flush_to_sheet up to the call of __execute_with_retry(_update)
FlushToSheetBegin(cells) ==
    /\ CanCall
    /\ nFlushes < MaxFlushes
    /\ nFlushes' = nFlushes + 1
    /\ cache_file' = FlushedFile
    /\ dirty' = FlushedDirty
    /\ cache_data' = EnsureAll(ReadCacheData, cells)
    /\ loaded' = TRUE
    /\ body' = DataBody(EnsureAll(ReadCacheData, cells), cells)
    /\ EnterExecutor("update")
    /\ startFailed' = failed_keys
    /\ marked' = {}
    /\ lastUpd' = NoUpd
    /\ rt' = IF rt.stage = "updated" /\ cells = <<rt.cell>>
             THEN [rt EXCEPT !.stage = "flushing"] ELSE NoRoundTrip
    /\ UNCHANGED <<inst, keys, max_retries, failed_keys, current_key_index,
                   http_client, remoteTable, nUpdates>>
    /\ UNCHANGED exceptSheet

SheetNext ==
    \/ Construct
    \/ ExecSucceeds
    \/ ExecRateLimitedRetry
    \/ ExecRateLimitedRaise
    \/ ExecOtherError
    \/ GetValueCall
    \/ \E cell \in Addresses, v \in Values : UpdateValueCall(cell, v)
    \/ FlushCacheCall
    \/ \E cells \in CellLists : FlushToSheetBegin(cells)

KeysNext ==
    \/ Construct
    \/ ExecSucceeds
    \/ ExecRateLimitedRetry
    \/ ExecRateLimitedRaise
    \/ ExecOtherError
    \/ ResetFailedKeys
    \/ \E cells \in {<<a>> : a \in Addresses} : FlushToSheetBegin(cells)

(***************************************************************************)
(* Specifications                                                          *)
(***************************************************************************)
SpecBatch == SheetIdle /\ [][BatchNext]_vars

\* the scheduler and its threads keep running: a step that some thread can
\* take is eventually taken (a row's processing and its sleeps terminate)
SpecBatchLive == SheetIdle /\ [][BatchNext]_vars /\ WF_vars(BatchNext)

SpecSheet == SheetInit /\ [][SheetNext]_vars

SpecKeys == KeysInit /\ [][KeysNext]_vars

\* the manager and its threads over every state of the keys directory
RegistryInit ==
    /\ BatchInit
    /\ SheetStart
    /\ keys = 1
    /\ max_retries = DefaultMaxRetries
    /\ remoteTable = EmptyTable
    /\ RegStart
    /\ ThreadsIdle
    /\ PricingIdle
    /\ ValidationIdle
    /\ SplitIdle
    /\ keys_dir \in {Missing} \cup (0..MaxKeyFiles)

SpecRegistry == RegistryInit /\ [][RegistryNext]_vars

(***************************************************************************)
(* Part IV: threads sharing one CacheSheet                                 *)
(*                                                                         *)
(* The worker threads read and write the same CacheSheet instances through *)
(* the manager (app/sheet/models.py). CacheSheet takes no lock, so its     *)
(* methods interleave statement by statement; update_value and get_range   *)
(* are split here at the statements between which another thread can run.  *)
(***************************************************************************)
\* one iteration of the loops of __ensure_cell_exists
GrowStep(d, row, col) ==
    IF Len(d) <= row THEN Append(d, <<>>)
    ELSE [d EXCEPT ![row + 1] = Append(@, Blank)]

\* the loops of __ensure_cell_exists have ended
CellExists(d, row, col) == Len(d) > row /\ Len(d[row + 1]) > col

threadFrame == <<inst, keys, max_retries, failed_keys, current_key_index,
                 http_client, cache_file, remoteTable, op, attempt, body,
                 nFlushes, lastUpd, rt, invocations, rlFailures, rotations,
                 events, startFailed, marked, execResult>>

\* update_value: data = self.__read_cache_data(); row, col = ...
UpdateEnter(t, cell, v) ==
    /\ CanCall
    /\ gpc[t] = "idle"
    /\ nUpdates < MaxUpdates
    /\ nUpdates' = nUpdates + 1
    /\ cache_data' = ReadCacheData
    /\ loaded' = TRUE
    /\ gpc' = [gpc EXCEPT ![t] = "ensure"]
    /\ gcell' = [gcell EXCEPT ![t] = cell]
    /\ gval' = [gval EXCEPT ![t] = v]
    /\ UNCHANGED <<dirty, threadFrame>>
    /\ UNCHANGED exceptThreads

\* update_value inside __ensure_cell_exists: one append, or the loops end
UpdateGrow(t) ==
    /\ gpc[t] = "ensure"
    /\ LET rc == A1ToIndices(gcell[t]) IN
       IF CellExists(cache_data, rc[1], rc[2])
       THEN /\ gpc' = [gpc EXCEPT ![t] = "assign"]
            /\ UNCHANGED cache_data
       ELSE /\ cache_data' = GrowStep(cache_data, rc[1], rc[2])
            /\ UNCHANGED gpc
    /\ UNCHANGED <<loaded, dirty, nUpdates, gcell, gval, threadFrame>>
    /\ UNCHANGED exceptThreads

\* update_value: data[row][col] = value
UpdateAssign(t) ==
    /\ gpc[t] = "assign"
    /\ LET rc == A1ToIndices(gcell[t]) IN
       cache_data' = SetCell(cache_data, rc[1], rc[2], gval[t])
    /\ gpc' = [gpc EXCEPT ![t] = "mark"]
    /\ UNCHANGED <<loaded, dirty, nUpdates, gcell, gval, threadFrame>>
    /\ UNCHANGED exceptThreads

\* update_value: self._dirty = True
UpdateMarkDirty(t) ==
    /\ gpc[t] = "mark"
    /\ dirty' = MarkDirty(dirty)
    /\ gpc' = [gpc EXCEPT ![t] = "idle"]
    /\ UNCHANGED <<loaded, cache_data, nUpdates, gcell, gval, threadFrame>>
    /\ UNCHANGED exceptThreads

\* get_value / get_range: data = self.__read_cache_data()
ReadEnter(t, cell) ==
    /\ CanCall
    /\ gpc[t] = "idle"
    /\ cache_data' = ReadCacheData
    /\ loaded' = TRUE
    /\ gpc' = [gpc EXCEPT ![t] = "reading"]
    /\ gcell' = [gcell EXCEPT ![t] = cell]
    /\ UNCHANGED <<dirty, nUpdates, gval, threadFrame>>
    /\ UNCHANGED exceptThreads

\* get_value / get_range: the subscripts are read and the method returns
ReadReturn(t) ==
    /\ gpc[t] = "reading"
    /\ gpc' = [gpc EXCEPT ![t] = "idle"]
    /\ UNCHANGED <<loaded, cache_data, dirty, nUpdates, gcell, gval,
                   threadFrame>>
    /\ UNCHANGED exceptThreads

ThreadsNext ==
    \/ \E t \in Threads, cell \in Addresses, v \in Values :
          UpdateEnter(t, cell, v)
    \/ \E t \in Threads : UpdateGrow(t)
    \/ \E t \in Threads : UpdateAssign(t)
    \/ \E t \in Threads : UpdateMarkDirty(t)
    \/ \E t \in Threads, cell \in Addresses : ReadEnter(t, cell)
    \/ \E t \in Threads : ReadReturn(t)

\* a CacheSheet as its constructor leaves it (one key, loaded at the first
\* attempt) over any of the initial tables that hold a value
ThreadsInit ==
    /\ BatchInit
    /\ RegIdle
    /\ inst = "ready"
    /\ keys = 1
    /\ max_retries = DefaultMaxRetries
    /\ failed_keys = {}
    /\ current_key_index = 0
    /\ http_client = 0
    /\ loaded = FALSE
    /\ cache_data = <<>>
    /\ dirty = FALSE
    /\ remoteTable \in InitialTables \ {EmptyTable}
    /\ cache_file = WriteRows(ValuesGet(remoteTable).values)
    /\ op = "none"
    /\ attempt = 0
    /\ body = <<>>
    /\ nUpdates = 0
    /\ nFlushes = 0
    /\ lastUpd = NoUpd
    /\ rt = NoRoundTrip
    /\ invocations = 1
    /\ rlFailures = 0
    /\ rotations = 0
    /\ events = <<Invoked(0)>>
    /\ startFailed = {}
    /\ marked = {}
    /\ execResult = "ok"

SpecThreads == ThreadsInit /\ [][ThreadsNext]_vars

\* C14: all operations on one CacheSheet are serialized: no thread is inside
\* get_value or get_range while another thread is inside update_value,
\* growing the grid or about to assign the cell it has created.
C14_Serialized ==
    \A t1, t2 \in Threads :
        ~(gpc[t1] \in {"ensure", "assign", "mark"} /\ gpc[t2] = "reading")

(***************************************************************************)
(* Part V: the pricing engine (app/processes/process.py) and the           *)
(* commission algebra (app/prices/models.py, app/utils/price_utils.py)     *)
(*                                                                         *)
(* Amounts are integers counting hundredths of a real price unit, so an    *)
(* API amount (minor units) and a real amount are the same number of       *)
(* hundredths. Sheet prices, deltas and competitor prices are taken on the *)
(* grid of quarters (PriceUnit hundredths): these are exact as binary      *)
(* floats, so that comparisons and round() behave in the model as they do  *)
(* in the code.                                                            *)
(***************************************************************************)
\* shared/consts.py: API_VS_REAL_PRICE_CONVERT_RATE
API_VS_REAL_PRICE_CONVERT_RATE == 100
\* the grid of prices: a quarter of a real unit
PriceUnit == 25
\* floors, ceilings and competitor prices go up to MaxPrice quarters
MaxPrice == 4
\* DONGIAGIAM_MIN and DONGIAGIAM_MAX go up to MaxDelta quarters
MaxDelta == 2
\* competitor offers the filter loop goes through
MaxOffers == 2
\* my_offer.price.amount goes up to MaxOwn
MaxOwn == 1
\* commission percentages are the multiples of PercentUnit up to MaxPercent
PercentUnit == 50
MaxPercent == 300
\* commissionRule.fixedAmount goes up to MaxFixed
MaxFixed == 2
\* customer-pay prices of the round trip go up to MaxPay
MaxPay == 20

\* rounding by truncation
PyRoundTruncated(n, d) == n \div d

\* round(n / d, 0) of Python 3 for d > 0: to the nearest integer, a tie to
\* the even one
PyRound(n, d) ==
    LET q == n \div d
        r == n % d
    IN  IF 2 * r < d THEN q
        ELSE IF 2 * r > d THEN q + 1
        ELSE IF q % 2 = 0 THEN q ELSE q + 1

\* the hundredths in one unit of the last digit kept by round(x, digits),
\* digits in 0..2
Step(digits) ==
    IF digits = 0 THEN API_VS_REAL_PRICE_CONVERT_RATE
    ELSE IF digits = 1 THEN API_VS_REAL_PRICE_CONVERT_RATE \div 10
    ELSE 1

\* round(x, digits) on an amount of x hundredths
RoundTo(x, digits) == PyRound(x, Step(digits)) * Step(digits)

\* PriceCustomerPay.to_priceiwtr and price_to_priceiwtr
PriceToPriceiwtr(price, rule) ==
    PyRound((price - rule.fixedAmount) * 100, 100 + rule.percentValue)

\* PriceIWTR.to_price_customer_pay and priceiwtr_to_price
PriceiwtrToPrice(iwtr, rule) ==
    PyRound(iwtr * (100 + rule.percentValue) + rule.fixedAmount * 100, 100)

\* the prices on the grid from lo to hi hundredths
OnGrid(lo, hi) == {x \in lo..hi : x % PriceUnit = 0}

\* the rows the engine is run on: min_price_value, max_price_value (0: no
\* ceiling, the code tests its truth value), the jitter band, the rounding
\* precision, the comparison mode, UNIT_STOCK and MIN_UNIT_PER_ORDER
Products ==
    {p \in [min_price_value : OnGrid(PriceUnit, MaxPrice * PriceUnit),
            max_price_value : OnGrid(0, MaxPrice * PriceUnit),
            DONGIAGIAM_MIN : OnGrid(0, MaxDelta * PriceUnit),
            DONGIAGIAM_MAX : OnGrid(0, MaxDelta * PriceUnit),
            DONGIA_LAMTRON : 0..2,
            CHECK_PRODUCT_COMPARE : 1..2,
            UNIT_STOCK : {1},
            MIN_UNIT_PER_ORDER : 0..1] :
        /\ p.max_price_value # 0 => p.min_price_value <= p.max_price_value
        /\ p.DONGIAGIAM_MIN <= p.DONGIAGIAM_MAX}

\* the commission rules of the round trip
CommissionRules ==
    [fixedAmount : 0..MaxFixed,
     percentValue : {c \in 0..MaxPercent : c % PercentUnit = 0}]

\* the competitor offers of the listing: unitPrice in API minor units
CrwlOffers ==
    [unitPrice : OnGrid(0, (MaxPrice + 1) * PriceUnit), black : BOOLEAN]

\* APIUnitPrice.to_real_unit_price and
\* RealUnitPrice.to_unit_price_per_unit_stock, in hundredths
PerUnitStock(unitPrice, p) == unitPrice * p.UNIT_STOCK

\* the filter condition without the test of the ceiling
ValidOfferNoCeiling(o, p) ==
    /\ ~o.black
    /\ p.min_price_value <= PerUnitStock(o.unitPrice, p)

\* the condition of the filter loop: seller not blacklisted and the price
\* within [floor, ceiling], or at least the floor without a ceiling
ValidOffer(o, p) ==
    /\ ~o.black
    /\ \/ /\ p.max_price_value # 0
          /\ p.min_price_value <= PerUnitStock(o.unitPrice, p)
          /\ PerUnitStock(o.unitPrice, p) <= p.max_price_value
       \/ /\ p.max_price_value = 0
          /\ p.min_price_value <= PerUnitStock(o.unitPrice, p)

\* new_min_unit_price_random and new_max_unit_price_random of
\* calculate_unit_price_change_by_min_offer
NewMinUnitPriceRandom(compare, p) ==
    IF compare - p.DONGIAGIAM_MAX >= p.min_price_value
    THEN compare - p.DONGIAGIAM_MAX ELSE p.min_price_value
NewMaxUnitPriceRandom(compare, p) ==
    IF compare - p.DONGIAGIAM_MIN >= p.min_price_value
    THEN compare - p.DONGIAGIAM_MIN ELSE p.min_price_value

\* the values random.uniform can return that lie on the grid
UniformDraws(compare, p) ==
    OnGrid(NewMinUnitPriceRandom(compare, p), NewMaxUnitPriceRandom(compare, p))

\* calculate_unit_price_change_by_min_offer for one draw
CalculateUnitPriceChangeByMinOffer(draw, p) == RoundTo(draw, p.DONGIA_LAMTRON)

\* min_quantity_per_order as the flow passes it
MinQuantityPerOrder(p) ==
    IF p.MIN_UNIT_PER_ORDER # 0 THEN p.UNIT_STOCK * p.MIN_UNIT_PER_ORDER ELSE 1

\* RealUnitPricePerUnitStock.to_api_unit_price followed by
\* APIUnitPrice.to_price_customer_pay (int() truncates)
ToPriceCustomerPay(amount, p) ==
    (amount * MinQuantityPerOrder(p)) \div p.UNIT_STOCK

\* the end of each target branch: customer-pay price and priceIWTR of the
\* target
PriceTarget(amount, how) ==
    /\ target_unit_price' = amount
    /\ customer_pay' = ToPriceCustomerPay(amount, product)
    /\ priceiwtr' = PriceToPriceiwtr(ToPriceCustomerPay(amount, product),
                                     my_offer.commissionRule)
    /\ branch' = how
    /\ ppc' = "priced"
    /\ UNCHANGED <<product, my_offer, min_unit_price_offer, nOffers, offers,
                   price_back, updated>>
    /\ UNCHANGED exceptPricing

\* one iteration of the filter loop over offers.items()
FilterOffer(o) ==
    /\ ppc = "filter"
    /\ nOffers < MaxOffers
    /\ nOffers' = nOffers + 1
    /\ offers' = Append(offers, o)
    /\ min_unit_price_offer' =
          IF /\ ValidOffer(o, product)
             /\ \/ min_unit_price_offer = NoOffer
                \/ o.unitPrice < min_unit_price_offer.unitPrice
          THEN [id |-> nOffers + 1, unitPrice |-> o.unitPrice,
                black |-> o.black]
          ELSE min_unit_price_offer
    /\ UNCHANGED <<product, my_offer, ppc, target_unit_price, branch,
                   customer_pay, priceiwtr, price_back, updated>>
    /\ UNCHANGED exceptPricing

\* no valid offer, a ceiling: "Update by max price"
UpdateByMaxPrice ==
    /\ ppc = "filter"
    /\ min_unit_price_offer = NoOffer
    /\ product.max_price_value # 0
    /\ PriceTarget(RoundTo(product.max_price_value, product.DONGIA_LAMTRON),
                   "byMax")

\* no valid offer, no ceiling: "Update by min price"
UpdateByMinPrice ==
    /\ ppc = "filter"
    /\ min_unit_price_offer = NoOffer
    /\ product.max_price_value = 0
    /\ PriceTarget(RoundTo(product.min_price_value, product.DONGIA_LAMTRON),
                   "byMin")

\* the test of mode 2: my_offer.price.amount against the competitor's real
\* unit price per unit stock
AlreadyLower ==
    my_offer.amount * API_VS_REAL_PRICE_CONVERT_RATE
        < PerUnitStock(min_unit_price_offer.unitPrice, product)

\* mode 2 with a price already lower: a note, no update, return
HoldPrice ==
    /\ ppc = "filter"
    /\ min_unit_price_offer # NoOffer
    /\ product.CHECK_PRODUCT_COMPARE = 2
    /\ AlreadyLower
    /\ branch' = "hold"
    /\ ppc' = "done"
    /\ UNCHANGED <<product, my_offer, min_unit_price_offer, nOffers, offers,
                   target_unit_price, customer_pay, priceiwtr, price_back,
                   updated>>
    /\ UNCHANGED exceptPricing

\* a valid best offer: the target is drawn below it
UpdateByOffer ==
    /\ ppc = "filter"
    /\ min_unit_price_offer # NoOffer
    /\ ~(product.CHECK_PRODUCT_COMPARE = 2 /\ AlreadyLower)
    /\ \E draw \in UniformDraws(
              PerUnitStock(min_unit_price_offer.unitPrice, product), product) :
          PriceTarget(CalculateUnitPriceChangeByMinOffer(draw, product),
                      "byOffer")

\* "if target_priceiwtr:" update_offer is called: target_priceiwtr is a
\* PriceIWTR object, which is true whatever its amount, 0 included
IssueUpdate ==
    /\ ppc = "priced"
    /\ updated' = TRUE
    /\ ppc' = "done"
    /\ UNCHANGED <<product, my_offer, min_unit_price_offer, nOffers, offers,
                   target_unit_price, branch, customer_pay, priceiwtr,
                   price_back>>
    /\ UNCHANGED exceptPricing

PricingNext ==
    \/ \E o \in CrwlOffers : FilterOffer(o)
    \/ UpdateByMaxPrice
    \/ UpdateByMinPrice
    \/ HoldPrice
    \/ UpdateByOffer
    \/ IssueUpdate

\* offers_compare_flow entered with any row, any own price and a commission
\* rule without a fixed amount
PricingInit ==
    /\ BatchInit
    /\ SheetStart
    /\ keys = 1
    /\ max_retries = DefaultMaxRetries
    /\ remoteTable = EmptyTable
    /\ RegStart
    /\ keys_dir = 1
    /\ ThreadsIdle
    /\ ValidationIdle
    /\ SplitIdle
    /\ product \in Products
    /\ my_offer \in [amount : 0..MaxOwn,
                     commissionRule : [fixedAmount : {0},
                                       percentValue : {0, PercentUnit}]]
    /\ min_unit_price_offer = NoOffer
    /\ nOffers = 0
    /\ offers = <<>>
    /\ ppc = "filter"
    /\ target_unit_price = NoTarget
    /\ branch = "none"
    /\ customer_pay = 0
    /\ priceiwtr = 0
    /\ price_back = 0
    /\ updated = FALSE

SpecPricing == PricingInit /\ [][PricingNext]_vars

\* price_to_priceiwtr on the customer-pay price
ConvertToPriceiwtr ==
    /\ ppc = "pay"
    /\ priceiwtr' = PriceToPriceiwtr(customer_pay, my_offer.commissionRule)
    /\ ppc' = "iwtr"
    /\ UNCHANGED <<product, my_offer, min_unit_price_offer, nOffers, offers,
                   target_unit_price, branch, customer_pay, price_back,
                   updated>>
    /\ UNCHANGED exceptPricing

\* priceiwtr_to_price on the result
ConvertToPrice ==
    /\ ppc = "iwtr"
    /\ price_back' = PriceiwtrToPrice(priceiwtr, my_offer.commissionRule)
    /\ ppc' = "back"
    /\ UNCHANGED <<product, my_offer, min_unit_price_offer, nOffers, offers,
                   target_unit_price, branch, customer_pay, priceiwtr,
                   updated>>
    /\ UNCHANGED exceptPricing

CommissionNext == ConvertToPriceiwtr \/ ConvertToPrice

\* a customer-pay price and a commission rule
CommissionInit ==
    /\ BatchInit
    /\ SheetStart
    /\ keys = 1
    /\ max_retries = DefaultMaxRetries
    /\ remoteTable = EmptyTable
    /\ RegStart
    /\ keys_dir = 1
    /\ ThreadsIdle
    /\ ValidationIdle
    /\ SplitIdle
    /\ product = RestProduct
    /\ my_offer \in [amount : {0}, commissionRule : CommissionRules]
    /\ min_unit_price_offer = NoOffer
    /\ nOffers = 0
    /\ offers = <<>>
    /\ ppc = "pay"
    /\ target_unit_price = NoTarget
    /\ branch = "none"
    /\ customer_pay \in 0..MaxPay
    /\ priceiwtr = 0
    /\ price_back = 0
    /\ updated = FALSE

SpecCommission == CommissionInit /\ [][CommissionNext]_vars

(***************************************************************************)
(* Part VI: validate_required_fields (src/main.py) on a CachedRow          *)
(*                                                                         *)
(* A row object is the function from its attribute names to "value", to    *)
(* "empty" (the empty string) or to "None".                                *)
(***************************************************************************)
\* the rows _parse_row_to_cached builds: the text fields may be empty, the
\* looked-up and the optional fields may be None
CachedRows ==
    {r \in [CachedRowFields -> {"value", "empty", "None"}] :
        /\ \A f \in {"index", "blacklist_value", "DONGIAGIAM_MIN",
                     "DONGIAGIAM_MAX", "DONGIA_LAMTRON", "Relax_time"} :
              r[f] = "value"
        /\ \A f \in {"Product_name", "Product_link", "Product_compare",
                     "Category", "Check_product_compare"} :
              r[f] \in {"value", "empty"}
        /\ \A f \in {"min_price_value", "max_price_value", "stock_value",
                     "include_keywords_value", "exclude_keywords_value",
                     "Note", "Last_update"} :
              r[f] \in {"value", "None"}}

\* the keys of required_fields
RequiredFields ==
    {"Product_link", "PRODUCT_COMPARE", "CHECK_PRODUCT_COMPARE",
     "DONGIAGIAM_MIN", "DONGIAGIAM_MAX", "DONGIA_LAMTRON", "min_price_value",
     "stock_value", "blacklist_value", "UNIT_STOCK", "RELAX_TIME"}

\* getattr(cached_row, field_name, None)
GetAttr(r, name) == IF name \in DOMAIN r THEN r[name] ELSE "None"

\* validate_required_fields: no required attribute is None
ValidateRequiredFields(r) ==
    \A name \in RequiredFields : GetAttr(r, name) # "None"

\* the worker validates the row it has taken from the cache
ValidateRow ==
    /\ is_valid = "none"
    /\ is_valid' = IF ValidateRequiredFields(cached_row) THEN "valid"
                   ELSE "invalid"
    /\ UNCHANGED cached_row
    /\ UNCHANGED exceptValidation

ValidationNext == ValidateRow

\* cache.get(index) has returned any row of the cache
ValidationInit ==
    /\ BatchInit
    /\ SheetStart
    /\ keys = 1
    /\ max_retries = DefaultMaxRetries
    /\ remoteTable = EmptyTable
    /\ RegStart
    /\ keys_dir = 1
    /\ ThreadsIdle
    /\ PricingIdle
    /\ cached_row \in CachedRows
    /\ is_valid = "none"
    /\ SplitIdle

SpecValidation == ValidationInit /\ [][ValidationNext]_vars

(***************************************************************************)
(* Part VII: the batches of main() (src/main.py, app/shared/utils.py)      *)
(***************************************************************************)
\* largest row index of a list to split, and largest chunk size
MaxIndex == 6
MaxChunk == 3

\* split_list keeping only the chunks that are full
SplitListFullOnly(l, n) ==
    [k \in 1..(Len(l) \div n) |-> SubSeq(l, (k - 1) * n + 1, k * n)]

\* [lst[i : i + chunk_size] for i in range(0, len(lst), chunk_size)]
SplitList(l, n) ==
    [k \in 1..((Len(l) + n - 1) \div n) |->
        SubSeq(l, (k - 1) * n + 1, Min(k * n, Len(l)))]

\* main() builds the batches of the run
MakeBatches ==
    /\ batches = <<>>
    /\ lst # <<>>
    /\ batches' = SplitList(lst, chunk_size)
    /\ UNCHANGED <<lst, chunk_size>>
    /\ UNCHANGED exceptSplit

SplitNext == MakeBatches

\* any increasing list of row indices, the empty one included (main() returns
\* before it splits an empty list), and any chunk size
SplitInit ==
    /\ BatchInit
    /\ SheetStart
    /\ keys = 1
    /\ max_retries = DefaultMaxRetries
    /\ remoteTable = EmptyTable
    /\ RegStart
    /\ keys_dir = 1
    /\ ThreadsIdle
    /\ PricingIdle
    /\ ValidationIdle
    /\ lst \in {SortedSeq(S) : S \in SUBSET (1..MaxIndex)}
    /\ chunk_size \in 1..MaxChunk
    /\ batches = <<>>
    /\ fl_index = 1 /\ fl_pc = "idle" /\ fl_mode = 0
    /\ fl_note = <<>> /\ fl_update = <<>> /\ fl_raised = <<>>

SpecSplit == SplitInit /\ [][SplitNext]_vars

(***************************************************************************)
(* Part VIII: the worker's handling of a row, from process() to the note   *)
(* (src/main.py worker, app/processes/process.py)                          *)
(***************************************************************************)
\* rows one worker handles
MaxFlowRows == 2
FlowRows == 1..MaxFlowRows

\* a call of the row's handling raises: the exception leaves process() and
\* is caught by the worker
Raise(call) ==
    /\ fl_raised' = [fl_raised EXCEPT ![fl_index] = call]
    /\ fl_pc' = "except"

\* the worker calls process(sb, cached_row) on a valid row
EnterProcess(mode) ==
    /\ fl_pc = "idle"
    /\ fl_index \in FlowRows
    /\ fl_mode' = mode
    /\ fl_pc' = "get_offer"
    /\ UNCHANGED <<fl_index, fl_note, fl_update, fl_raised>>
    /\ UNCHANGED exceptFlow

\* kinguin_client.get_offer, the first call of both flows
GetOffer(ok) ==
    /\ fl_pc = "get_offer"
    /\ IF ok
       THEN /\ fl_pc' = IF fl_mode = 0 THEN "update_offer" ELSE "crawl"
            /\ UNCHANGED fl_raised
       ELSE Raise("get_offer")
    /\ UNCHANGED <<fl_index, fl_mode, fl_note, fl_update>>
    /\ UNCHANGED exceptFlow

\* extract_offers_or_final_produce and get_state: the competitors' offers
Crawl(ok) ==
    /\ fl_pc = "crawl"
    /\ IF ok
       THEN fl_pc' = "compare" /\ UNCHANGED fl_raised
       ELSE Raise("crawl")
    /\ UNCHANGED <<fl_index, fl_mode, fl_note, fl_update>>
    /\ UNCHANGED exceptFlow

\* offers_compare_flow up to update_offer: in mode 2 with a price found
\* lower, the hold note is written and the flow returns; otherwise a target
\* price and the note message are computed
Compare(hold) ==
    /\ fl_pc = "compare"
    /\ hold => fl_mode = 2
    /\ IF hold
       THEN /\ fl_note' = [fl_note EXCEPT ![fl_index] = Append(@, "hold")]
            /\ fl_pc' = "relax"
       ELSE /\ fl_pc' = "update_offer"
            /\ UNCHANGED fl_note
    /\ UNCHANGED <<fl_index, fl_mode, fl_update, fl_raised>>
    /\ UNCHANGED exceptFlow

\* update_offer with every error swallowed
AfterUpdateOfferSwallowed(ok) == "note"

\* where the flow goes on after update_offer: to update_cache_note when it
\* returned, to the worker's except clause when it raised
AfterUpdateOffer(ok) == IF ok THEN "note" ELSE "except"

\* update_offer: the marketplace update
UpdateOffer(ok) ==
    /\ fl_pc = "update_offer"
    /\ fl_update' = [fl_update EXCEPT
                         ![fl_index] = IF ok THEN "returned" ELSE "raised"]
    /\ fl_raised' = IF ok THEN fl_raised
                    ELSE [fl_raised EXCEPT ![fl_index] = "update_offer"]
    /\ fl_pc' = AfterUpdateOffer(ok)
    /\ UNCHANGED <<fl_index, fl_mode, fl_note>>
    /\ UNCHANGED exceptFlow

\* update_cache_note(product, note_message): the success note
UpdateCacheNote ==
    /\ fl_pc = "note"
    /\ fl_note' = [fl_note EXCEPT ![fl_index] = Append(@, "success")]
    /\ fl_pc' = "relax"
    /\ UNCHANGED <<fl_index, fl_mode, fl_update, fl_raised>>
    /\ UNCHANGED exceptFlow

\* time.sleep(cached_row.RELAX_TIME), which raises on a value that is not a
\* duration
Relax(ok) ==
    /\ fl_pc = "relax"
    /\ IF ok
       THEN fl_pc' = "finally" /\ UNCHANGED fl_raised
       ELSE Raise("sleep")
    /\ UNCHANGED <<fl_index, fl_mode, fl_note, fl_update>>
    /\ UNCHANGED exceptFlow

\* the worker's except clauses: update_error_to_cache(index, ...)
UpdateErrorToCache ==
    /\ fl_pc = "except"
    /\ fl_note' = [fl_note EXCEPT ![fl_index] = Append(@, "error")]
    /\ fl_pc' = "finally"
    /\ UNCHANGED <<fl_index, fl_mode, fl_update, fl_raised>>
    /\ UNCHANGED exceptFlow

\* the finally clause, and the worker takes the next index
NextIndex ==
    /\ fl_pc = "finally"
    /\ fl_index' = fl_index + 1
    /\ fl_pc' = "idle"
    /\ UNCHANGED <<fl_mode, fl_note, fl_update, fl_raised>>
    /\ UNCHANGED exceptFlow

FlowNext ==
    \/ \E mode \in 0..2 : EnterProcess(mode)
    \/ \E ok \in BOOLEAN : GetOffer(ok)
    \/ \E ok \in BOOLEAN : Crawl(ok)
    \/ \E hold \in BOOLEAN : Compare(hold)
    \/ \E ok \in BOOLEAN : UpdateOffer(ok)
    \/ UpdateCacheNote
    \/ \E ok \in BOOLEAN : Relax(ok)
    \/ UpdateErrorToCache
    \/ NextIndex

\* a worker about to take its first row, no note written yet
FlowInit ==
    /\ BatchInit
    /\ SheetStart
    /\ keys = 1
    /\ max_retries = DefaultMaxRetries
    /\ remoteTable = EmptyTable
    /\ RegStart
    /\ keys_dir = 1
    /\ ThreadsIdle
    /\ PricingIdle
    /\ ValidationIdle
    /\ lst = <<>> /\ chunk_size = 1 /\ batches = <<>>
    /\ fl_index = 1
    /\ fl_pc = "idle"
    /\ fl_mode = 0
    /\ fl_note = [r \in FlowRows |-> <<>>]
    /\ fl_update = [r \in FlowRows |-> "none"]
    /\ fl_raised = [r \in FlowRows |-> "none"]

SpecFlow == FlowInit /\ [][FlowNext]_vars

(***************************************************************************)
(* Claims about CacheSheet                                                 *)
(***************************************************************************)
\* the addresses of the model and those one row or column beyond them
ExtAddresses == (1..(MaxCoord + 1)) \X (1..(MaxCoord + 1))

\* a1_range_to_grid_range of "X9:Y10" (both corners given)
BoxRange(a, b) ==
    [startRowIndex |-> a[1] - 1, endRowIndex |-> b[1],
     startColumnIndex |-> a[2] - 1, endColumnIndex |-> b[2]]

\* a1_range_to_grid_range of full columns "X:Y" and of full rows "9:10"
ColumnsRange(c1, c2) ==
    [startRowIndex |-> Unbounded, endRowIndex |-> Unbounded,
     startColumnIndex |-> c1 - 1, endColumnIndex |-> c2]
RowsRange(r1, r2) ==
    [startRowIndex |-> r1 - 1, endRowIndex |-> r2,
     startColumnIndex |-> Unbounded, endColumnIndex |-> Unbounded]

\* the ranges get_range is called with: single cells, boxes reaching beyond
\* the grid, full columns, full rows
GridRanges ==
    {CellRange(a) : a \in ExtAddresses} \cup
    {BoxRange(a, <<MaxCoord + 1, MaxCoord + 1>>) : a \in ExtAddresses} \cup
    {ColumnsRange(c, MaxCoord + 1) : c \in 1..(MaxCoord + 1)} \cup
    {RowsRange(r, MaxCoord + 1) : r \in 1..(MaxCoord + 1)}

C7_RoundTrip ==
    rt.stage \in {"fresh", "freshFailed"} =>
        /\ rt.stage = "fresh"
        /\ GetValue(ReadCacheData, rt.cell) = rt.value

\* C7 amended: the round trip returns v for any printable string v that is
\* not empty.
C7_RoundTripNonBlank ==
    (rt.stage \in {"fresh", "freshFailed"} /\ rt.value # Blank) =>
        /\ rt.stage = "fresh"
        /\ GetValue(ReadCacheData, rt.cell) = rt.value

\* a fresh instance has reloaded a value holding a quote and a comma that the
\* previous instance wrote to a cell of the second row and flushed
C7_Witness ==
    /\ rt.stage = "fresh"
    /\ rt.value = <<Quote, Comma>>
    /\ rt.cell[1] = 2
    /\ inst = "ready"
    /\ ~loaded

\* the cells of a get_range result that lie outside the grid are null, and no
\* cell of it is an exception
RangeSafe(d, g) ==
    LET res == GetRange(d, g)
        r0 == PyOr(g.startRowIndex, 0)
        c0 == PyOr(g.startColumnIndex, 0)
    IN \A k \in 1..Len(res) : \A j \in 1..Len(res[k]) :
          /\ res[k][j] # Raised
          /\ Subscript(d, r0 + k - 1, c0 + j - 1) = IndexError
                => res[k][j] = NoneVal

Healthy(k) == k.cur \in 0..(keys - 1) /\ k.cur \notin k.failed

\* C9: credential self-healing. After any sequence of selections, rotations
\* and resets on a pool of K >= 1 keys, the next __select_random_key (alone,
\* or as the second half of __rotate_key) has an outcome, every outcome is a
\* pool member outside the failed set, and so is the key currently held.
C9_SelfHealing ==
    /\ SelectRandomKey(KeyState, keys) # {}
    /\ \A k \in SelectRandomKey(KeyState, keys) : Healthy(k)
    /\ RotateKey(KeyState, keys) # {}
    /\ \A k \in RotateKey(KeyState, keys) : Healthy(k)
    /\ current_key_index # NoKey => Healthy(KeyState)

\* as many rotations as the pool has keys have marked every key failed, the
\* failed set has been cleared and a key of the pool is held
C9_Witness ==
    /\ keys >= 2
    /\ rotations = keys
    /\ marked = 0..(keys - 1)
    /\ failed_keys = {}
    /\ current_key_index \in 0..(keys - 1)
    /\ http_client = current_key_index

\* three rate-limit failures of one operation executed on a pool of 3 keys,
\* none of them marked failed when the operation started
ThreeFailures == keys = 3 /\ startFailed = {} /\ rlFailures = 3

\* C10 as stated: with a pool of 3 keys, 3 successive rate-limit failures of
\* an executed operation mark all 3 keys failed, and the next selection
\* returns one of the 3.
C10_ThreeFailuresMarkAll ==
    ThreeFailures =>
        /\ marked = 0..2
        /\ \A k \in SelectRandomKey(KeyState, keys) : k.cur \in 0..2

\* C10 amended: with a pool of 3 keys, none failed beforehand, 3 successive
\* rate-limit failures of an executed operation mark all 3 keys failed only
\* when max_retries is at least 4: the third rotation then clears the failed
\* set and selects one of the 3. With max_retries = 3 the third failure is
\* re-raised without a rotation: 2 keys are marked failed and the key held is
\* the third. In both cases the next selection returns one of the 3.
C10_ThreeFailuresByBudget ==
    ThreeFailures =>
        /\ max_retries >= 3
        /\ max_retries = 3 =>
              /\ execResult = "raised"
              /\ rotations = 2
              /\ Cardinality(marked) = 2
              /\ failed_keys = marked
              /\ current_key_index \in (0..2) \ failed_keys
        /\ max_retries > 3 =>
              /\ rotations = 3
              /\ marked = 0..2
              /\ failed_keys = {}
              /\ current_key_index \in 0..2
        /\ SelectRandomKey(KeyState, keys) # {}
        /\ \A k \in SelectRandomKey(KeyState, keys) : k.cur \in 0..2

\* the default max_retries: the third rate-limit failure of the load has been
\* re-raised with two of the three keys marked failed
C10_Witness ==
    /\ ThreeFailures
    /\ max_retries = DefaultMaxRetries
    /\ execResult = "raised"
    /\ Cardinality(failed_keys) = 2

(***************************************************************************)
(* Claims about the retrying executor                                      *)
(***************************************************************************)
\* C11: an operation run through __execute_with_retry is invoked at most
\* max_retries times; when every attempt failed with a rate-limit error the
\* error propagates after exactly max_retries invocations, and when an attempt
\* succeeds the executor returns at once, every earlier attempt having been
\* a rate-limit failure.
C11_AtMostNInvocations ==
    /\ invocations <= max_retries
    /\ op # "none" => invocations = rlFailures /\ invocations < max_retries
    /\ (execResult = "raised" /\ rlFailures = invocations)
          => (op = "none" /\ invocations = max_retries)
    /\ execResult = "ok" => (op = "none" /\ invocations = rlFailures + 1)

\* the last attempt of a budget of more than one attempt has been re-raised
C11_Witness ==
    /\ execResult = "raised"
    /\ max_retries > 1
    /\ rlFailures = max_retries
    /\ invocations = max_retries

C13_OneInstancePerKey ==
    \A k \in TableKeys :
        /\ Cardinality(made[k]) <= 1
        /\ Cardinality(rets[k]) <= 1

\* C18: construction against a missing keys directory or one without key
\* files fails in __load_keys, before any remote read and with nothing
\* registered; with at least one key file no selection or rotation fails,
\* whatever keys are marked failed.
C18_ConstructionFailsEarly ==
    /\ keys_dir \in {Missing, 0} =>
          /\ loads = 0
          /\ \A k \in TableKeys : sheets[k] = NoInstance /\ made[k] = {}
          /\ \A t \in Threads :
                /\ tnew[t] = NoInstance
                /\ tres[t] \in {"none", "FileNotFoundError", "ValueError"}
                /\ tpc[t] \in {"idle", "initKeys", "newKeys"}
    /\ keys_dir >= 1 =>
          /\ \A t \in Threads :
                tres[t] \notin {"FileNotFoundError", "ValueError"}
          /\ \A f \in SUBSET (0..(keys_dir - 1)) :
                \A c \in {NoKey} \cup (0..(keys_dir - 1)) :
                   LET ks == [failed |-> f, cur |-> c, http |-> c]
                   IN /\ SelectRandomKey(ks, keys_dir) # {}
                      /\ RotateKey(ks, keys_dir) # {}
                      /\ GetHttpClient(ks, keys_dir) # {}

\* both threads have had a constructor fail for lack of key files, one of
\* them called through add_sheet, and nothing was read or registered
C18_Witness ==
    /\ keys_dir = 0
    /\ mgr = "ready"
    /\ \A t \in Threads : tres[t] = "ValueError"
    /\ \E t \in Threads : tpc[t] = "idle"
    /\ loads = 0

(***************************************************************************)
(* More claims about CacheSheet                                            *)
(***************************************************************************)
\* all rows of a get_range result have the same length
Rectangular(res) ==
    \A i, j \in 1..Len(res) : Len(res[i]) = Len(res[j])

\* C19: get_range returns a rectangular grid for every range and every grid
\* a usable instance can hold, also for a range without column bounds over
\* rows of different lengths or reaching past the last row.
C19_Rectangular ==
    CanCall =>
        \A g \in GridRanges : Rectangular(GetRange(ReadCacheData, g))

\* the value a grid holds at an address: "" where the grid has no such cell
CellOf(d, a) ==
    LET v == Subscript(d, a[1] - 1, a[2] - 1)
    IN IF v = IndexError THEN Blank ELSE v

\* C20 as stated: in every state of a usable instance, if the grid holds a
\* value set by update_value that the remote table does not hold, the dirty
\* flag is set.
C20_DirtyUntilRemote ==
    (inst = "ready" /\ loaded /\
     \E a \in Addresses : CellOf(cache_data, a) # remoteTable[a])
        => dirty

\* C20 amended: in every state of a usable instance, if the grid holds a
\* value set by update_value that the local cache file does not hold, the
\* dirty flag is set.
C20_DirtyUntilFile ==
    (inst = "ready" /\ loaded /\
     \E a \in Addresses :
        CellOf(cache_data, a) # CellOf(ReadRows(cache_file), a))
        => dirty

\* two updates have been made since the file was written and the second
\* one's value is not in the file
C20_Witness ==
    /\ CanCall
    /\ dirty
    /\ nUpdates = 2
    /\ lastUpd.set
    /\ lastUpd.value # Blank
    /\ CellOf(ReadRows(cache_file), lastUpd.cell) # lastUpd.value

(***************************************************************************)
(* Claims about the pricing engine and the commission algebra              *)
(***************************************************************************)
\* C15: the target unit price chosen by the pricing engine is never below
\* the floor of the row and, when a ceiling is set, never above the ceiling.
C15_PriceBound ==
    target_unit_price # NoTarget =>
        /\ target_unit_price >= product.min_price_value
        /\ product.max_price_value # 0 =>
              target_unit_price <= product.max_price_value

\* C16: for every customer-pay price and every commission rule with
\* percentValue >= 0, converting the price to priceIWTR and back gives a
\* price that differs from it by at most one minor unit.
C16_RoundTrip ==
    ppc = "back" =>
        /\ price_back - customer_pay <= 1
        /\ customer_pay - price_back <= 1

\* C16 as amended: the round trip stays within one minor unit for the
\* commission rules with 0 <= percentValue <= 200.
C16_RoundTripUpTo200 ==
    (ppc = "back" /\ my_offer.commissionRule.percentValue <= 200) =>
        /\ price_back - customer_pay <= 1
        /\ customer_pay - price_back <= 1

\* a round trip under a percentage between 100 and 200 has come back one
\* minor unit away from the price it started from
C16_Witness ==
    /\ ppc = "back"
    /\ my_offer.commissionRule.percentValue >= 100
    /\ my_offer.commissionRule.percentValue <= 200
    /\ price_back # customer_pay

\* C17: a target priced from a valid best competitor lies in
\* [max(floor, best - Dmax), max(floor, best - Dmin)]: it is never below the
\* floor and, when best - Dmax >= floor, undercuts the competitor by an
\* amount in [Dmin, Dmax].
C17_DrawnInBand ==
    (branch = "byOffer" /\ target_unit_price # NoTarget) =>
        LET compare == PerUnitStock(min_unit_price_offer.unitPrice, product)
            low == IF compare - product.DONGIAGIAM_MAX > product.min_price_value
                   THEN compare - product.DONGIAGIAM_MAX
                   ELSE product.min_price_value
            high == IF compare - product.DONGIAGIAM_MIN > product.min_price_value
                    THEN compare - product.DONGIAGIAM_MIN
                    ELSE product.min_price_value
        IN  /\ low <= target_unit_price
            /\ target_unit_price <= high
            /\ target_unit_price >= product.min_price_value
            /\ compare - product.DONGIAGIAM_MAX >= product.min_price_value =>
                  /\ compare - target_unit_price >= product.DONGIAGIAM_MIN
                  /\ compare - target_unit_price <= product.DONGIAGIAM_MAX


(***************************************************************************)
(* Claims about flush_to_sheet and update_value                            *)
(***************************************************************************)
\* C21: flush_to_sheet(cells) first writes a dirty grid to the local file,
\* then sends one batched write that lists exactly the given cells in order,
\* each with the value the grid held for it when the call was made ("" for a
\* cell the grid did not have); a write that reaches the remote table changes
\* no cell that is not listed and gives each listed cell its listed value.
C21_FlushWritesListedCells ==
    [][/\ \A cells \in CellLists :
            FlushToSheetBegin(cells) =>
               /\ (dirty /\ loaded) => cache_file' = WriteRows(cache_data)
               /\ ~(dirty /\ loaded) => cache_file' = cache_file
               /\ ~dirty'
               /\ op' = "update"
               /\ remoteTable' = remoteTable
               /\ Len(body') = Len(cells)
               /\ \A k \in 1..Len(cells) :
                     /\ body'[k].range = cells[k]
                     /\ body'[k].value = CellOf(ReadCacheData, cells[k])
       /\ (op = "update" /\ remoteTable' # remoteTable) =>
               /\ op' = "none"
               /\ \A a \in Addresses :
                     IF \E k \in 1..Len(body) : body[k].range = a
                     THEN \E k \in 1..Len(body) :
                             body[k].range = a /\ remoteTable'[a] = body[k].value
                     ELSE remoteTable'[a] = remoteTable[a]]_vars

\* a flush of two different cells has returned: the remote table holds the
\* value sent for the first, which is not blank and was not there before the
\* update
C21_Witness ==
    /\ op = "none"
    /\ execResult = "ok"
    /\ nFlushes = 1
    /\ nUpdates >= 1
    /\ Len(body) = 2
    /\ body[1].range # body[2].range
    /\ body[1].value = <<Quote, Comma>>
    /\ remoteTable[body[1].range] = body[1].value
    /\ body[1].range = <<1, 2>>

\* C22: update_value(cell, value) changes only local state: the cell takes
\* the value, the cells created to make it exist are blank, every other cell
\* the grid had keeps its value, the dirty flag is set, and neither the remote
\* table nor the local file is touched and no remote call is started.
C22_UpdateValueLocal ==
    [][\A cell \in Addresses, v \in Values :
          UpdateValueCall(cell, v) =>
             LET old == ReadCacheData IN
             /\ loaded'
             /\ dirty'
             /\ remoteTable' = remoteTable
             /\ cache_file' = cache_file
             /\ op' = "none"
             /\ invocations' = 0
             /\ Subscript(cache_data', cell[1] - 1, cell[2] - 1) = v
             /\ \A a \in ExtAddresses :
                   a # cell =>
                      IF Subscript(old, a[1] - 1, a[2] - 1) # IndexError
                      THEN Subscript(cache_data', a[1] - 1, a[2] - 1)
                              = Subscript(old, a[1] - 1, a[2] - 1)
                      ELSE Subscript(cache_data', a[1] - 1, a[2] - 1)
                              \in {IndexError, Blank}]_vars

\* update_value has set a cell that the grid did not have, two cells to the
\* right of the last cell of its row: the cell in between was created blank,
\* and the remote table does not hold the value
C22_Witness ==
    /\ CanCall
    /\ dirty
    /\ lastUpd.set
    /\ lastUpd.cell = <<2, 2>>
    /\ lastUpd.value = <<"x">>
    /\ nUpdates = 1
    /\ cache_data = << <<<<"x">>>>, <<Blank, <<"x">>>> >>
    /\ remoteTable[<<2, 2>>] = Blank


(***************************************************************************)
(* Claims about the worker and the scheduler                               *)
(***************************************************************************)
\* C23: a row whose required fields are all present (no field of it is
\* None) passes validation and is handed to the pricing flow; only a row
\* with a required field missing is skipped with an error note.
C23_ValidRowPasses ==
    is_valid = "invalid" =>
        \E f \in CachedRowFields : cached_row[f] = "None"


\* C24: a batch flush that failed went through __execute_with_retry: the
\* executor has invoked the write at least once and has raised, and when
\* the error was a rate limit it had used up the whole attempt budget.
C24_FlushThroughExecutor ==
    flushOutcome = "failed" =>
        /\ execResult = "raised"
        /\ invocations >= 1
        /\ rlFailures >= 1 => invocations = max_retries

\* workers still inside their loop, of this batch or of an earlier one
AliveThreads ==
    Cardinality({w \in Workers : Alive(wpc[w])}) + Cardinality(zombies)

InRow(pc) == pc \in {"got", "process", "sleep"}

\* C26: when index_queue.join() has returned, no index of the batch is in
\* the queue and no worker is inside a row.
C26_JoinAfterAllDone ==
    mainPc = "sentinels" =>
        /\ \A k \in 1..Len(index_queue) : index_queue[k] = Sentinel
        /\ \A w \in Workers : ~InRow(wpc[w])

\* C27: task_done never raises, and unfinished_tasks is never below the
\* number of items that are queued or held by a worker that has not yet
\* acknowledged them.
C27_TaskDoneOnce ==
    /\ \A w \in Workers : wpc[w] \notin {"died", "diedAtStop"}
    /\ unfinished_tasks >=
          Len(index_queue)
            + Cardinality({w \in Workers : InRow(wpc[w]) \/ wpc[w] = "finally"})


\* C28: threads that are inside add_sheet for the same key at the same time
\* and have each come back from the constructor hold one and the same
\* instance: concurrent calls on an unregistered key construct it once.
C28_ConcurrentAddOnce ==
    \A t1, t2 \in Threads :
        (/\ t1 # t2
         /\ tkey[t1] = tkey[t2]
         /\ tpc[t1] = "addStore"
         /\ tpc[t2] = "addStore") => tnew[t1] = tnew[t2]


C30_HoldSameUnit ==
    (/\ branch # "none"
     /\ min_unit_price_offer # NoOffer
     /\ product.CHECK_PRODUCT_COMPARE = 2
     /\ my_offer.commissionRule.percentValue = 0) =>
        (branch = "hold" <=>
            PerUnitStock(my_offer.amount, product)
                < PerUnitStock(min_unit_price_offer.unitPrice, product))


\* an offer the row admits as a competitor: its seller is not blacklisted
\* and its unit price is at least the floor and at most the ceiling, if any
Admissible(o) ==
    /\ ~o.black
    /\ product.min_price_value <= o.unitPrice * product.UNIT_STOCK
    /\ product.max_price_value # 0 =>
          o.unitPrice * product.UNIT_STOCK <= product.max_price_value

\* positions of the iterated offers that are admissible
AdmissibleSeen == {k \in 1..Len(offers) : Admissible(offers[k])}

\* C31: after any number of iterations of the filter loop the best offer is
\* none when no iterated offer is admissible, and else it is the first of
\* the admissible offers with the lowest unit price; it is never a
\* blacklisted or out-of-bounds offer.
C31_BestIsFirstMinimum ==
    IF AdmissibleSeen = {}
    THEN min_unit_price_offer = NoOffer
    ELSE /\ min_unit_price_offer # NoOffer
         /\ min_unit_price_offer.id \in AdmissibleSeen
         /\ LET k == min_unit_price_offer.id
            IN  /\ min_unit_price_offer.unitPrice = offers[k].unitPrice
                /\ min_unit_price_offer.black = offers[k].black
                /\ \A j \in AdmissibleSeen :
                      /\ offers[k].unitPrice <= offers[j].unitPrice
                      /\ offers[j].unitPrice = offers[k].unitPrice => k <= j

\* two admissible offers with the same unit price were iterated under a
\* ceiling and the first one is the best offer
C31_Witness ==
    /\ Len(offers) = 2
    /\ AdmissibleSeen = {1, 2}
    /\ offers[1].unitPrice = offers[2].unitPrice
    /\ product.max_price_value # 0
    /\ min_unit_price_offer.id = 1


\* C32: with no valid competitor the target is the ceiling when the row has
\* one and the floor otherwise, and the flow ends with update_offer called.
C32_NoCompetitorTarget ==
    branch \in {"byMax", "byMin"} =>
        /\ target_unit_price =
              IF product.max_price_value # 0
              THEN product.max_price_value ELSE product.min_price_value
        /\ ppc = "done" => updated


(***************************************************************************)
(* More claims about the key pool and the executor                         *)
(***************************************************************************)
\* keys of the pool other than the one held that are not marked failed
OtherKeysLeft == ((0..(keys - 1)) \ {current_key_index}) \ failed_keys

StepsOf(kind) == {p \in 1..Len(events) : events[p].e = kind}

\* C34: in an executed operation every rotation comes right after a failed
\* invocation, is followed by one sleep of 2^i seconds, i being the 0-based
\* attempt of that invocation, and then by the invocation of attempt i + 1;
\* nothing else comes between two invocations, and the number of rotations
\* is the number of invocations that were followed by a retry.
C34_RotateSleepRetry ==
    /\ \A p \in StepsOf("rotate") :
          /\ p > 1
          /\ events[p - 1].e = "invoke"
          /\ p + 1 <= Len(events)
          /\ events[p + 1] = Slept(2 ^ events[p - 1].n)
          /\ IF p + 2 <= Len(events)
             THEN events[p + 2] = Invoked(events[p - 1].n + 1)
             ELSE op # "none" /\ attempt = events[p - 1].n + 1
    /\ \A p \in StepsOf("sleep") : p > 1 /\ events[p - 1] = Rotated
    /\ \A p \in StepsOf("invoke") : p < Len(events) => events[p + 1] = Rotated
    /\ rotations = Cardinality(StepsOf("rotate"))
    /\ rotations =
          Cardinality({p \in StepsOf("invoke") :
                          \/ \E q \in StepsOf("invoke") : q > p
                          \/ op # "none"})

\* an operation that succeeded at its third attempt: two rate-limit
\* failures, each followed by a rotation and sleeps of 1 and 2 seconds
C34_Witness ==
    /\ execResult = "ok"
    /\ rotations = 2
    /\ events = <<Invoked(0), Rotated, Slept(1),
                  Invoked(1), Rotated, Slept(2), Invoked(2)>>


\* C35 as stated: the constructor issues no remote read, the first get_value
\* does, and update_value issues none.
C35_LazyRemoteRead ==
    [][/\ Construct => op' = "none"
       /\ GetValueCall => op' = "load"
       /\ \A cell \in Addresses, v \in Values :
             UpdateValueCall(cell, v) => op' = "none"]_vars

\* C35 amended: the remote read is issued by the constructor, and only by
\* it; the first get_value or get_range reads the local file into memory
\* and neither it nor update_value enters the executor or touches the
\* remote table.
C35_ReadAtConstruction ==
    /\ [](op = "load" => inst = "loading" /\ ~loaded)
    /\ [][/\ Construct => op' = "load" /\ inst' = "loading"
          /\ GetValueCall =>
                /\ op' = "none"
                /\ events' = <<>>
                /\ remoteTable' = remoteTable
                /\ cache_file' = cache_file
                /\ loaded'
                /\ cache_data' = ReadRows(cache_file)
          /\ \A cell \in Addresses, v \in Values :
                UpdateValueCall(cell, v) =>
                   /\ op' = "none"
                   /\ events' = <<>>
                   /\ remoteTable' = remoteTable]_vars

\* get_value has loaded the file of a constructed instance into memory and
\* nothing else was called since the construction
C35_Witness ==
    /\ inst = "ready"
    /\ op = "none"
    /\ loaded
    /\ cache_data # <<>>
    /\ cache_data = ReadRows(cache_file)
    /\ nUpdates = 0
    /\ nFlushes = 0
    /\ events = <<>>


\* C36: flush_cache on a dirty instance writes the whole grid to the cache
\* file and clears the dirty flag, leaving the grid and the remote table as
\* they are; on a clean instance it changes neither the file nor the flag;
\* a second call right after the first one finds the instance clean and so
\* changes nothing.
C36_FlushCacheOnce ==
    /\ [](dirty => loaded)
    /\ []((CanCall /\ ~dirty) =>
             FlushedFile = cache_file /\ FlushedDirty = dirty)
    /\ [][FlushCacheCall =>
             /\ cache_file' = WriteRows(cache_data)
             /\ ReadRows(cache_file') = cache_data
             /\ ~dirty'
             /\ cache_data' = cache_data
             /\ loaded' = loaded
             /\ remoteTable' = remoteTable
             /\ op' = "none"]_vars

\* flush_cache has written a grid changed by update_value to the file; no
\* flush_to_sheet was called
C36_Witness ==
    /\ CanCall
    /\ loaded
    /\ ~dirty
    /\ nUpdates >= 1
    /\ nFlushes = 0
    /\ cache_file = WriteRows(cache_data)
    /\ \E a \in Addresses : CellOf(cache_data, a) # remoteTable[a]


\* C39: whenever the grid is loaded in memory and the dirty flag is clear,
\* the local file holds exactly the in-memory grid, after any sequence of
\* get_value, update_value, flush_cache and flush_to_sheet calls.
C39_CleanGridIsOnFile ==
    (inst = "ready" /\ loaded /\ ~dirty) => ReadRows(cache_file) = cache_data

RECURSIVE Concat(_)
\* the lists of a list, one after the other
Concat(ls) == IF ls = <<>> THEN <<>> ELSE Head(ls) \o Concat(Tail(ls))

\* C37: the batches, one after the other, are the list; every batch but the
\* last has chunk_size indices and the last has between 1 and chunk_size;
\* every index of the list is in exactly one batch; with THREAD_NUMBER as
\* the chunk size these are the batches the scheduler seeds its queues with.
C37_Partition ==
    batches # <<>> =>
        /\ Concat(batches) = lst
        /\ \A k \in 1..(Len(batches) - 1) : Len(batches[k]) = chunk_size
        /\ Len(batches[Len(batches)]) \in 1..chunk_size
        /\ \A p \in 1..Len(lst) :
              Cardinality({k \in 1..Len(batches) :
                              \E j \in 1..Len(batches[k]) :
                                  batches[k][j] = lst[p]}) = 1
        /\ chunk_size = THREAD_NUMBER =>
              /\ NumBatches(lst) = Len(batches)
              /\ \A k \in 1..Len(batches) : Batch(lst, k) = batches[k]

\* a list of five indices was split into two full batches of two and a last
\* batch of one
C37_Witness ==
    /\ Len(lst) = 5
    /\ chunk_size = 2
    /\ Len(batches) = 3
    /\ Len(batches[3]) = 1


(***************************************************************************)
(* Claims about the notes of a row                                         *)
(***************************************************************************)
\* a note of this kind was written for the row
HasNote(r, kind) == \E i \in 1..Len(fl_note[r]) : fl_note[r][i] = kind

\* the worker has left the handling of the row
Handled(r) == fl_index > r \/ (fl_index = r /\ fl_pc = "finally")

\* C38: a row has a success note only if update_offer has returned for it;
\* a row whose get_offer or update_offer raised has no success note, and
\* once the worker has left it, its last note is the error note.
C38_SuccessNoteAfterUpdate ==
    \A r \in FlowRows :
        /\ HasNote(r, "success") => fl_update[r] = "returned"
        /\ fl_raised[r] \in {"get_offer", "update_offer"} =>
              /\ ~HasNote(r, "success")
              /\ Handled(r) => fl_note[r] = <<"error">>

\* the update of the first row raised and the row got the error note only;
\* the update of the second row returned and the row got the success note
C38_Witness ==
    /\ fl_index = MaxFlowRows + 1
    /\ fl_update[1] = "raised"
    /\ fl_note[1] = <<"error">>
    /\ fl_update[2] = "returned"
    /\ fl_note[2] = <<"success">>

====
